---------------------------- MODULE Spec2Model ----------------------------
(***************************************************************************)
(* Usage metering and quota enforcement of the Acctos AI dashboard API:    *)
(* document-usage ingestion (routes/documentUsage.ts), the quota engine    *)
(* (utils/usageLimits.ts) and the billing routes that read or change the   *)
(* quota state (routes/billing.ts).                                        *)
(*                                                                         *)
(* Every request is a process that runs one handler.  A handler yields at  *)
(* each await (a store call or a call to the workflow platform); the code  *)
(* between two awaits is one atomic step.                                  *)
(***************************************************************************)
EXTENDS Integers, Sequences, FiniteSets, TLC

(***************************************************************************)
(* Time.  A timestamp counts ticks since 1970-01-01 00:00 local time, with *)
(* TicksPerDay ticks in a day, so that midnight is a multiple of           *)
(* TicksPerDay.  The calendar is the proleptic Gregorian one of Date.      *)
(***************************************************************************)
TicksPerDay == 2

NoDate == -1

IsLeap(y) == (y % 4 = 0 /\ y % 100 # 0) \/ y % 400 = 0

DaysInMonth(y, m) ==
    IF m = 1 THEN (IF IsLeap(y) THEN 29 ELSE 28)
    ELSE IF m \in {3, 5, 8, 10} THEN 30
    ELSE 31

LeapsBefore(y) == ((y - 1) \div 4) - ((y - 1) \div 100) + ((y - 1) \div 400)

DaysBeforeYear(y) == 365 * (y - 1970) + LeapsBefore(y) - LeapsBefore(1970)

RECURSIVE DaysBeforeMonth(_, _)
DaysBeforeMonth(y, m) ==
    IF m = 0 THEN 0 ELSE DaysBeforeMonth(y, m - 1) + DaysInMonth(y, m - 1)

\* new Date(year, month, day, 0, 0, 0): a month outside 0..11 carries into the year.
MakeDate(year, month, day) ==
    LET y == year + (month \div 12)
        m == month % 12
    IN  (DaysBeforeYear(y) + DaysBeforeMonth(y, m) + (day - 1)) * TicksPerDay

DayNumber(ts) == ts \div TicksPerDay

getFullYear(ts) ==
    LET n == DayNumber(ts)
    IN  CHOOSE y \in (1970 + (n \div 366)) .. (1970 + (n \div 365)) :
            DaysBeforeYear(y) <= n /\ n < DaysBeforeYear(y + 1)

getMonth(ts) ==
    LET y == getFullYear(ts)
        k == DayNumber(ts) - DaysBeforeYear(y)
    IN  CHOOSE m \in 0 .. 11 :
            DaysBeforeMonth(y, m) <= k /\ k < DaysBeforeMonth(y, m) + DaysInMonth(y, m)

getDate(ts) ==
    LET y == getFullYear(ts)
    IN  DayNumber(ts) - DaysBeforeYear(y) - DaysBeforeMonth(y, getMonth(ts)) + 1

\* d.setHours(0, 0, 0, 0)
setHoursZero(ts) == ts - (ts % TicksPerDay)

\* The anchor with the 5th itself still counted into the previous period.
getExpectedResetDateAfterFifth(t) ==
    IF getDate(t) > 5
    THEN MakeDate(getFullYear(t), getMonth(t), 5)
    ELSE MakeDate(getFullYear(t), getMonth(t) - 1, 5)

getExpectedResetDate(t) ==
    IF getDate(t) >= 5
    THEN MakeDate(getFullYear(t), getMonth(t), 5)
    ELSE MakeDate(getFullYear(t), getMonth(t) - 1, 5)

getNextResetDate(t) ==
    IF getDate(t) >= 5
    THEN MakeDate(getFullYear(t), getMonth(t) + 1, 5)
    ELSE MakeDate(getFullYear(t), getMonth(t), 5)

(***************************************************************************)
(* The store.  Tenant rows exist for every member of Tenants (no request   *)
(* modelled here creates or deletes a tenant); UnknownCustomer names none. *)
(***************************************************************************)
Tenants == {"t1", "t2"}

UnknownCustomer == "tX"

NumProcs == 2

Procs == 1 .. NumProcs

NumScen == 2

Scen == 1 .. NumScen

\* Idempotency keys: the values a client sends in the header (gen false) and the
\* UUIDs the handler generates (gen true).  NoHeader is a request without the header.
NoHeader == [gen |-> FALSE, id |-> 0]

HeaderKeys == {[gen |-> FALSE, id |-> 1]}

MaxReq == 2

VARIABLES
    now,          \* the server clock
    tenant,       \* Tenant rows: limits, add-ons, paused flag, lastResetAt, credentials
    subscription, \* Subscription.status per tenant ("none" when no row)
    events,       \* DocumentUsageEvent rows
    aggs,         \* DocumentUsageAggregate rows, unique on (customerId, date)
    ext,          \* the workflow platform: is scenario s of tenant t running
    extCalls,     \* the scenario stop / start calls the platform has received
    proc,         \* the requests in flight: position and locals
    hist,         \* per (tenant, header key): the answers and aggregate writes of ingest
    nreq,         \* requests started so far (also the source of generated keys)
    applied,      \* per tenant: the period start written by the last monthly reset
    clockOut      \* result of the last evaluation of the period calculator

vars == <<now, tenant, subscription, events, aggs, ext, extCalls, proc, hist,
          nreq, applied, clockOut>>

db == <<tenant, subscription, events, aggs>>

(***************************************************************************)
(* Store queries.                                                          *)
(***************************************************************************)
RECURSIVE SumPages(_)
SumPages(S) ==
    IF S = {} THEN 0
    ELSE LET r == CHOOSE x \in S : TRUE IN r.pagesSpent + SumPages(S \ {r})

RECURSIVE SumRows(_)
SumRows(S) ==
    IF S = {} THEN 0
    ELSE LET r == CHOOSE x \in S : TRUE IN r.rowsUsed + SumRows(S \ {r})

RECURSIVE SumCount(_)
SumCount(S) ==
    IF S = {} THEN 0
    ELSE LET r == CHOOSE x \in S : TRUE IN r.eventCount + SumCount(S \ {r})

\* documentUsageAggregate.aggregate({ where: { customerId, date: { gte } }, _sum })
\* The sum without where: { customerId }.
getCurrentPeriodUsageAllTenants(A, tenantId, periodStart) ==
    LET R == {a \in A : a.date >= periodStart}
    IN  [pages |-> SumPages(R), rows |-> SumRows(R)]

getCurrentPeriodUsage(A, tenantId, periodStart) ==
    LET R == {a \in A : a.customerId = tenantId /\ a.date >= periodStart}
    IN  [pages |-> SumPages(R), rows |-> SumRows(R)]

\* The unique index of DocumentUsageEvent that makes create fail with P2002.
EventKeyTaken(E, customerId, idempotencyKey) ==
    \E e \in E : e.customerId = customerId /\ e.idempotencyKey = idempotencyKey

\* The upsert with update: { pagesSpent, rowsUsed } in place of { increment }.
UpsertAggregateOverwrite(A, customerId, eventDate, pagesSpent, rowsUsed) ==
    IF \E a \in A : a.customerId = customerId /\ a.date = eventDate
    THEN {IF a.customerId = customerId /\ a.date = eventDate
          THEN [a EXCEPT !.pagesSpent = pagesSpent,
                         !.rowsUsed = rowsUsed,
                         !.eventCount = @ + 1]
          ELSE a : a \in A}
    ELSE A \cup {[customerId |-> customerId, date |-> eventDate,
                  pagesSpent |-> pagesSpent, rowsUsed |-> rowsUsed,
                  eventCount |-> 1]}

\* documentUsageAggregate.upsert on customerId_date: create, or increment in place.
UpsertAggregate(A, customerId, eventDate, pagesSpent, rowsUsed) ==
    IF \E a \in A : a.customerId = customerId /\ a.date = eventDate
    THEN {IF a.customerId = customerId /\ a.date = eventDate
          THEN [a EXCEPT !.pagesSpent = @ + pagesSpent,
                         !.rowsUsed = @ + rowsUsed,
                         !.eventCount = @ + 1]
          ELSE a : a \in A}
    ELSE A \cup {[customerId |-> customerId, date |-> eventDate,
                  pagesSpent |-> pagesSpent, rowsUsed |-> rowsUsed,
                  eventCount |-> 1]}

\* z.number().int() without .min(0)
ValidCountNoMin(n) == ~n.frac

\* documentUsageSchema: z.number().int().min(0) on pagesSpent and rowsUsed.
\* A payload number is whole + (frac ? 1/2 : 0).
ValidCount(n) == ~n.frac /\ n.whole >= 0

documentUsageSchemaOk(pagesSpent, rowsUsed) ==
    ValidCount(pagesSpent) /\ ValidCount(rowsUsed)

\* periodStart = lastResetAt normalised to midnight when set, else the period anchor
\* The period start taken from the calendar alone, whatever lastResetAt holds.
periodStartCalculated(row, t) == getExpectedResetDate(t)

periodStartOf(row, t) ==
    IF row.lastResetAt # NoDate THEN setHoursZero(row.lastResetAt)
    ELSE getExpectedResetDate(t)

totalPages(row) == row.pagesLimit + row.addonPagesLimit

totalRows(row) == row.rowsLimit + row.addonRowsLimit

\* The pause test with > in place of >=.
exceededStrictly(usage, row) == usage.pages > totalPages(row) \/ usage.rows > totalRows(row)

exceeded(usage, row) == usage.pages >= totalPages(row) \/ usage.rows >= totalRows(row)

\* The resume test with <= in place of <.
withinLimitsInclusive(usage, row) ==
    usage.pages <= totalPages(row) /\ usage.rows <= totalRows(row)

withinLimits(usage, row) == usage.pages < totalPages(row) /\ usage.rows < totalRows(row)

\* The reset test with <= in place of <.
needsResetInclusive(row, expectedReset) ==
    row.lastResetAt = NoDate \/ row.lastResetAt <= expectedReset

needsReset(row, expectedReset) ==
    row.lastResetAt = NoDate \/ row.lastResetAt < expectedReset

(***************************************************************************)
(* Requests.  proc[p] holds the position (pc) and the locals of request p. *)
(* stack holds the continuations of the async calls still awaited.         *)
(***************************************************************************)
\* session.metadata: a field that is absent reads as undefined.  tenantId and
\* addonType are strings ("" when absent); addonQuantity is absent, a string that
\* is no number, or the decimal string of n.
NoTenant == ""

NoType == ""

MetaAbsent == [present |-> FALSE, numeric |-> FALSE, n |-> 0]

MetaText == [present |-> TRUE, numeric |-> FALSE, n |-> 0]

MetaNum(n) == [present |-> TRUE, numeric |-> TRUE, n |-> n]

\* meta.addonQuantity ? parseInt(meta.addonQuantity) : 0.  parseInt of a string
\* that is no number is NaN, of which only 'NaN > 0 is false' is used: it is 0 here.
parseIntMeta(raw) == IF raw.present /\ raw.numeric THEN raw.n ELSE 0

NoRow ==
    [pagesLimit |-> 0, rowsLimit |-> 0, addonPagesLimit |-> 0, addonRowsLimit |-> 0,
     scenariosPaused |-> FALSE, lastResetAt |-> NoDate, makeApiKey |-> FALSE]

NoResp == [status |-> 0, body |-> "none"]

NoCount == [whole |-> 0, frac |-> FALSE]

Idle ==
    [pc |-> "idle", op |-> "none", t |-> UnknownCustomer, key |-> NoHeader,
     pagesSpent |-> NoCount, rowsUsed |-> NoCount, ts |-> NoDate, resp |-> NoResp,
     addonType |-> NoType, addonQuantity |-> 0, updateData |-> 0,
     snap |-> NoRow, pre |-> NoRow, atStart |-> NoRow, expectedReset |-> NoDate, isSubscribed |-> FALSE,
     periodStart |-> NoDate, usage |-> [pages |-> 0, rows |-> 0],
     stack |-> << >>, ret |-> FALSE,
     mode |-> "none", todo |-> << >>, tried |-> << >>, listed |-> 0,
     cnt |-> [ok |-> 0, failed |-> 0],
     out |-> [addonPagesUsed |-> 0, addonRowsUsed |-> 0, pagesLimit |-> 0, rowsLimit |-> 0]]

Free(p) == proc[p].pc \in {"idle", "done"}

\* Request slots are interchangeable: a request takes the lowest free one.
CanStart(p) ==
    /\ Free(p)
    /\ \A q \in Procs : q < p => ~Free(q)
    /\ nreq < MaxReq

\* What is left of a request once its handler and its background task have ended:
\* its answer and the result of its last call.
Done(l) ==
    LET d == [Idle EXCEPT !.pc = "done", !.op = l.op, !.t = l.t, !.resp = l.resp]
    IN  CASE l.op \in {"pauseAll", "resumeAll"} ->
                [d EXCEPT !.mode = l.mode, !.pre = l.pre, !.listed = l.listed,
                          !.tried = l.tried, !.cnt = l.cnt]
          [] l.op = "adminReset" ->
                [d EXCEPT !.mode = l.mode, !.atStart = l.atStart, !.listed = l.listed,
                          !.tried = l.tried, !.cnt = l.cnt]
          [] l.op \in {"checkAndPause", "checkAndResume", "monthlyReset"} ->
                [d EXCEPT !.ret = l.ret, !.cnt = l.cnt]
          [] l.op = "webhook" ->
                [d EXCEPT !.ret = l.ret, !.cnt = l.cnt, !.addonType = l.addonType,
                          !.addonQuantity = l.addonQuantity]
          [] l.op = "usageStatus" ->
                [d EXCEPT !.out = l.out, !.atStart = l.atStart]
          [] l.op = "ingest" /\ l.resp.status = 400 ->
                [d EXCEPT !.pagesSpent = l.pagesSpent, !.rowsUsed = l.rowsUsed]
          [] OTHER -> d

Begin(op, tenantId) == [Idle EXCEPT !.op = op, !.t = tenantId]

\* The locals of a call that has returned, or has only 'return true' left to do, are dead.
Clear(l) ==
    [l EXCEPT !.snap = NoRow, !.pre = NoRow, !.expectedReset = NoDate,
              !.isSubscribed = FALSE, !.periodStart = NoDate,
              !.usage = [pages |-> 0, rows |-> 0], !.mode = "none",
              !.todo = << >>, !.tried = << >>, !.listed = 0,
              !.cnt = IF l.op \in {"checkAndPause", "checkAndResume", "webhook"} THEN @
                      ELSE [ok |-> 0, failed |-> 0]]

\* Give the awaited call's result to the continuation on top of the stack.  A
\* continuation that only returns true, or only ends the task, runs at once.
RECURSIVE Return(_, _)
Return(l, v) ==
    LET top == Head(l.stack)
        l2 == [l EXCEPT !.stack = Tail(@), !.ret = v]
    IN  CASE top = "ret_true" -> Return(Clear(l2), TRUE)
          [] top = "end" -> Done(l2)
          [] top = "received" -> Done([l2 EXCEPT !.resp = [status |-> 200,
                                                           body |-> "received"]])
          [] top = "deleted" -> Done([l2 EXCEPT !.resp = [status |-> 200,
                                                          body |-> "deleted"]])
          [] OTHER -> [l2 EXCEPT !.pc = top]

Call(l, entry, continuation) ==
    [l EXCEPT !.pc = entry, !.stack = <<continuation>> \o @]

SetProc(p, l) == proc' = [proc EXCEPT ![p] = l]

(***************************************************************************)
(* Workflow platform client: pauseAllScenarios / resumeAllScenarios.       *)
(* mode is "stop" for pause and "start" for resume.                        *)
(***************************************************************************)
RECURSIVE SeqOfScen(_)
SeqOfScen(n) == IF n = 0 THEN << >> ELSE Append(SeqOfScen(n - 1), n)

\* findUnique({ select: { makeApiKey } }); no key: return { 0, 0 }
PsKey(p) ==
    LET l == proc[p] IN
    /\ l.pc = "ps_key"
    /\ SetProc(p, IF ~tenant[l.t].makeApiKey
                  THEN Return([l EXCEPT !.pre = tenant[l.t], !.listed = 0,
                                        !.tried = << >>,
                                        !.cnt = [ok |-> 0, failed |-> 0]], FALSE)
                  ELSE [l EXCEPT !.pre = tenant[l.t], !.pc = "ps_fetch"])
    /\ UNCHANGED <<now, db, ext, extCalls, hist, nreq, applied, clockOut>>

\* fetchScenarios: the folder's scenarios, or [] when the organisation cannot be
\* resolved or the listing call fails.  With [] the loop and the flag write are skipped.
PsFetch(p) ==
    LET l == proc[p] IN
    /\ l.pc = "ps_fetch"
    /\ \E scenarios \in {SeqOfScen(NumScen), << >>} :
          LET l2 == [l EXCEPT !.todo = scenarios, !.listed = Len(scenarios),
                              !.tried = << >>, !.cnt = [ok |-> 0, failed |-> 0]]
          IN  SetProc(p, IF scenarios = << >> THEN Return(l2, FALSE)
                         ELSE [l2 EXCEPT !.pc = "ps_call"])
    /\ UNCHANGED <<now, db, ext, extCalls, hist, nreq, applied, clockOut>>

\* The flag write without its if (paused > 0).
AfterLoopAlwaysFlag(l) ==
    IF l.todo # << >> THEN l ELSE [l EXCEPT !.pc = "ps_flag"]

\* after the loop: if (paused > 0) update the flag, else return the counts
AfterLoop(l) ==
    IF l.todo # << >> THEN l
    ELSE IF l.cnt.ok > 0 THEN [l EXCEPT !.pc = "ps_flag"]
    ELSE Return(l, FALSE)

\* axios.post(.../scenarios/{id}/stop | start): one scenario per step
PsCall(p) ==
    LET l == proc[p]
        s == Head(l.todo)
    IN
    /\ l.pc = "ps_call"
    /\ extCalls' = [extCalls EXCEPT ![l.mode][l.t][s] = @ + 1]
    /\ \/ /\ ext' = [ext EXCEPT ![l.t][s] = (l.mode = "start")]
          /\ SetProc(p, AfterLoop([l EXCEPT !.todo = Tail(@), !.tried = Append(@, s),
                                            !.cnt.ok = @ + 1]))
       \/ /\ UNCHANGED ext
          /\ SetProc(p, AfterLoop([l EXCEPT !.todo = Tail(@), !.tried = Append(@, s),
                                            !.cnt.failed = @ + 1]))
    /\ UNCHANGED <<now, db, hist, nreq, applied, clockOut>>

\* tenant.update({ data: { scenariosPaused: true | false } })
PsFlag(p) ==
    LET l == proc[p] IN
    /\ l.pc = "ps_flag"
    /\ tenant' = [tenant EXCEPT ![l.t].scenariosPaused = (l.mode = "stop")]
    /\ SetProc(p, Return(l, FALSE))
    /\ UNCHANGED <<now, subscription, events, aggs, ext, extCalls, hist, nreq, applied, clockOut>>

\* The flag update rejects: the catch around it logs 'DB flag skipped' and the
\* counts are returned as if the flag had been written.
PsFlagFault(p) ==
    LET l == proc[p] IN
    /\ l.pc = "ps_flag"
    /\ SetProc(p, Return(l, FALSE))
    /\ UNCHANGED <<now, db, ext, extCalls, hist, nreq, applied, clockOut>>

pauseAllScenarios(l, continuation) ==
    Call([Clear(l) EXCEPT !.mode = "stop"], "ps_key", continuation)

resumeAllScenarios(l, continuation) ==
    Call([Clear(l) EXCEPT !.mode = "start"], "ps_key", continuation)

(***************************************************************************)
(* applyMonthlyResetIfNeeded                                               *)
(***************************************************************************)
\* findUnique({ select: { lastResetAt, scenariosPaused } }); needsReset?
AmrRead(p) ==
    LET l == proc[p]
        row == tenant[l.t]
        expectedReset == getExpectedResetDate(now)
        l2 == [l EXCEPT !.snap = row, !.expectedReset = expectedReset]
    IN
    /\ l.pc = "amr_read"
    /\ SetProc(p, IF needsReset(row, expectedReset)
                  THEN [l2 EXCEPT !.pc = "amr_sub"]
                  ELSE Return(Clear(l), FALSE))
    /\ UNCHANGED <<now, db, ext, extCalls, hist, nreq, applied, clockOut>>

\* isSubscribed taken from the presence of a subscription row, whatever its status.
AmrSubAnyStatus(p) ==
    LET l == proc[p] IN
    /\ l.pc = "amr_sub"
    /\ SetProc(p, [l EXCEPT !.isSubscribed = (subscription[l.t] # "none"),
                            !.pc = "amr_update"])
    /\ UNCHANGED <<now, db, ext, extCalls, hist, nreq, applied, clockOut>>

\* subscription.findUnique; isSubscribed = status === 'active'
AmrSub(p) ==
    LET l == proc[p] IN
    /\ l.pc = "amr_sub"
    /\ SetProc(p, [l EXCEPT !.isSubscribed = (subscription[l.t] = "active"),
                            !.pc = "amr_update"])
    /\ UNCHANGED <<now, db, ext, extCalls, hist, nreq, applied, clockOut>>

\* The reset with the auto-resume not tied to the subscription.
AmrUpdateAnyTenant(p) ==
    LET l == proc[p]
        autoResume == l.snap.scenariosPaused
    IN
    /\ l.pc = "amr_update"
    /\ tenant' = [tenant EXCEPT ![l.t] =
                    [@ EXCEPT !.addonPagesLimit = 0,
                              !.addonRowsLimit = 0,
                              !.lastResetAt = l.expectedReset,
                              !.scenariosPaused = IF autoResume THEN FALSE ELSE @]]
    /\ SetProc(p, IF autoResume
                  THEN resumeAllScenarios(l, "ret_true")
                  ELSE Return(Clear(l), TRUE))
    /\ applied' = [applied EXCEPT ![l.t] = l.expectedReset]
    /\ UNCHANGED <<now, subscription, events, aggs, ext, extCalls, hist, nreq, clockOut>>

\* The reset that also deletes the tenant's daily aggregates.
AmrUpdateClearsUsage(p) ==
    LET l == proc[p]
        autoResume == l.isSubscribed /\ l.snap.scenariosPaused
    IN
    /\ l.pc = "amr_update"
    /\ tenant' = [tenant EXCEPT ![l.t] =
                    [@ EXCEPT !.addonPagesLimit = 0,
                              !.addonRowsLimit = 0,
                              !.lastResetAt = l.expectedReset,
                              !.scenariosPaused = IF autoResume THEN FALSE ELSE @]]
    /\ aggs' = {a \in aggs : a.customerId # l.t}
    /\ SetProc(p, IF autoResume
                  THEN resumeAllScenarios(l, "ret_true")
                  ELSE Return(Clear(l), TRUE))
    /\ applied' = [applied EXCEPT ![l.t] = l.expectedReset]
    /\ UNCHANGED <<now, subscription, events, ext, extCalls, hist, nreq, clockOut>>

\* tenant.update: add-ons to 0, lastResetAt, and the flag for a paused subscriber
AmrUpdate(p) ==
    LET l == proc[p]
        autoResume == l.isSubscribed /\ l.snap.scenariosPaused
    IN
    /\ l.pc = "amr_update"
    /\ tenant' = [tenant EXCEPT ![l.t] =
                    [@ EXCEPT !.addonPagesLimit = 0,
                              !.addonRowsLimit = 0,
                              !.lastResetAt = l.expectedReset,
                              !.scenariosPaused = IF autoResume THEN FALSE ELSE @]]
    /\ SetProc(p, IF autoResume
                  THEN resumeAllScenarios(l, "ret_true")
                  ELSE Return(Clear(l), TRUE))
    /\ applied' = [applied EXCEPT ![l.t] = l.expectedReset]
    /\ UNCHANGED <<now, subscription, events, aggs, ext, extCalls, hist, nreq, clockOut>>

(***************************************************************************)
(* checkAndPauseIfNeeded (after its applyMonthlyResetIfNeeded)             *)
(***************************************************************************)
\* findUnique of limits, flag and lastResetAt; periodStart
CapRead(p) ==
    LET l == proc[p]
        row == tenant[l.t]
    IN
    /\ l.pc = "cap_read"
    /\ SetProc(p, [l EXCEPT !.snap = row, !.periodStart = periodStartOf(row, now),
                            !.pc = "cap_usage"])
    /\ UNCHANGED <<now, db, ext, extCalls, hist, nreq, applied, clockOut>>

\* getCurrentPeriodUsage; if (exceeded && !scenariosPaused) pauseAllScenarios
CapUsage(p) ==
    LET l == proc[p]
        usage == getCurrentPeriodUsage(aggs, l.t, l.periodStart)
        l2 == [l EXCEPT !.usage = usage]
    IN
    /\ l.pc = "cap_usage"
    /\ SetProc(p, IF exceeded(usage, l.snap) /\ ~l.snap.scenariosPaused
                  THEN pauseAllScenarios(l2, "ret_true")
                  ELSE Return(Clear(l2), FALSE))
    /\ UNCHANGED <<now, db, ext, extCalls, hist, nreq, applied, clockOut>>

(***************************************************************************)
(* checkAndResumeIfPossible                                                *)
(***************************************************************************)
CarRead(p) ==
    LET l == proc[p]
        row == tenant[l.t]
        l2 == [l EXCEPT !.snap = row, !.periodStart = periodStartOf(row, now)]
    IN
    /\ l.pc = "car_read"
    /\ SetProc(p, IF ~row.scenariosPaused THEN Return(Clear(l2), FALSE)
                  ELSE [l2 EXCEPT !.pc = "car_usage"])
    /\ UNCHANGED <<now, db, ext, extCalls, hist, nreq, applied, clockOut>>

CarUsage(p) ==
    LET l == proc[p]
        usage == getCurrentPeriodUsage(aggs, l.t, l.periodStart)
        l2 == [l EXCEPT !.usage = usage]
    IN
    /\ l.pc = "car_usage"
    /\ SetProc(p, IF withinLimits(usage, l.snap)
                  THEN resumeAllScenarios(l2, "ret_true")
                  ELSE Return(Clear(l2), FALSE))
    /\ UNCHANGED <<now, db, ext, extCalls, hist, nreq, applied, clockOut>>

\* The catch blocks with 'return true' in place of 'return false'.
EngineFaultReturnsTrue(p) ==
    LET l == proc[p] IN
    /\ l.pc \in {"amr_read", "amr_sub", "amr_update", "cap_read", "cap_usage",
                 "car_read", "car_usage"}
    /\ SetProc(p, Return(Clear(l), TRUE))
    /\ UNCHANGED <<now, db, ext, extCalls, hist, nreq, applied, clockOut>>

\* The fault with the evaluation awaited inside the handler's try block: the
\* rejection reaches next(error) and the ingest request is answered 500.
EngineFaultSurfaced(p) ==
    LET l == proc[p] IN
    /\ l.pc \in {"amr_read", "amr_sub", "amr_update", "cap_read", "cap_usage",
                 "car_read", "car_usage"}
    /\ SetProc(p, IF l.op = "ingest"
                  THEN Done([l EXCEPT !.resp = [status |-> 500, body |-> "error"]])
                  ELSE Return(Clear(l), FALSE))
    /\ UNCHANGED <<now, db, ext, extCalls, hist, nreq, applied, clockOut>>

(***************************************************************************)
(* A store call awaited by applyMonthlyResetIfNeeded, checkAndPauseIfNeeded *)
(* or checkAndResumeIfPossible rejects: the function's own catch logs the  *)
(* error and returns false to its caller.                                  *)
(***************************************************************************)
EngineFault(p) ==
    LET l == proc[p] IN
    /\ l.pc \in {"amr_read", "amr_sub", "amr_update", "cap_read", "cap_usage",
                 "car_read", "car_usage"}
    /\ SetProc(p, Return(Clear(l), FALSE))
    /\ UNCHANGED <<now, db, ext, extCalls, hist, nreq, applied, clockOut>>

(***************************************************************************)
(* POST /api/usage/document                                                *)
(***************************************************************************)
CustomerIds == Tenants \cup {UnknownCustomer}

KeyOf(t, id) == <<t, id>>

HistKeys == {KeyOf(t, k.id) : t \in Tenants, k \in HeaderKeys}

Bump(h, l, field) ==
    IF l.key.gen THEN h ELSE [h EXCEPT ![KeyOf(l.t, l.key.id)][field] = @ + 1]

\* The handler with one constant in place of randomUUID().
StartIngestFixedKey(p, customerId, header, pagesSpent, rowsUsed, timestamp) ==
    LET key == IF header = NoHeader THEN [gen |-> TRUE, id |-> 0] ELSE header
        l == [Begin("ingest", customerId) EXCEPT
                !.key = key, !.pagesSpent = pagesSpent, !.rowsUsed = rowsUsed,
                !.ts = timestamp]
    IN
    /\ CanStart(p)
    /\ nreq' = nreq + 1
    /\ SetProc(p, IF documentUsageSchemaOk(pagesSpent, rowsUsed)
                  THEN [l EXCEPT !.pc = "ing_find"]
                  ELSE Done([l EXCEPT !.resp = [status |-> 400,
                                                body |-> "VALIDATION_ERROR"]]))
    /\ UNCHANGED <<now, db, ext, extCalls, hist, applied, clockOut>>

\* idempotencyKey = header || randomUUID(); documentUsageSchema.parse(body):
\* a ZodError is answered 400 before any store call
StartIngest(p, customerId, header, pagesSpent, rowsUsed, timestamp) ==
    LET key == IF header = NoHeader THEN [gen |-> TRUE, id |-> nreq + 1] ELSE header
        l == [Begin("ingest", customerId) EXCEPT
                !.key = key, !.pagesSpent = pagesSpent, !.rowsUsed = rowsUsed,
                !.ts = timestamp]
    IN
    /\ CanStart(p)
    /\ nreq' = nreq + 1
    /\ SetProc(p, IF documentUsageSchemaOk(pagesSpent, rowsUsed)
                  THEN [l EXCEPT !.pc = "ing_find"]
                  ELSE Done([l EXCEPT !.resp = [status |-> 400,
                                                body |-> "VALIDATION_ERROR"]]))
    /\ UNCHANGED <<now, db, ext, extCalls, hist, applied, clockOut>>

\* tenant.findUnique({ where: { id: customerId } }); none: 404
IngFind(p) ==
    LET l == proc[p] IN
    /\ l.pc = "ing_find"
    /\ SetProc(p, IF l.t \notin Tenants
                  THEN Done([l EXCEPT !.resp = [status |-> 404,
                                                body |-> "CUSTOMER_NOT_FOUND"]])
                  ELSE [l EXCEPT !.pc = "ing_create",
                                 !.ts = IF l.ts = NoDate THEN now ELSE l.ts])
    /\ UNCHANGED <<now, db, ext, extCalls, hist, nreq, applied, clockOut>>

\* The P2002 branch with the aggregate upsert moved out of the try block's
\* success path: a duplicate is answered 200 and still counted.
IngCreateCountsDuplicate(p) ==
    LET l == proc[p] IN
    /\ l.pc = "ing_create"
    /\ IF EventKeyTaken(events, l.t, l.key)
       THEN /\ SetProc(p, Done([l EXCEPT !.resp = [status |-> 200,
                                                    body |-> "duplicate"]]))
            /\ hist' = Bump(hist, l, "duplicate")
            /\ aggs' = UpsertAggregate(aggs, l.t, setHoursZero(l.ts),
                                        l.pagesSpent.whole, l.rowsUsed.whole)
            /\ UNCHANGED events
       ELSE /\ events' = events \cup
                   {[customerId |-> l.t, idempotencyKey |-> l.key,
                     pagesSpent |-> l.pagesSpent.whole, rowsUsed |-> l.rowsUsed.whole,
                     timestamp |-> l.ts]}
            /\ SetProc(p, [l EXCEPT !.pc = "ing_upsert"])
            /\ UNCHANGED <<hist, aggs>>
    /\ UNCHANGED <<now, tenant, subscription, ext, extCalls, nreq, applied, clockOut>>

\* The create without the unique index: no P2002, every create stores a row.
IngCreateNoConflict(p) ==
    LET l == proc[p] IN
    /\ l.pc = "ing_create"
    /\ events' = events \cup
           {[customerId |-> l.t, idempotencyKey |-> l.key,
             pagesSpent |-> l.pagesSpent.whole, rowsUsed |-> l.rowsUsed.whole,
             timestamp |-> l.ts]}
    /\ SetProc(p, [l EXCEPT !.pc = "ing_upsert"])
    /\ UNCHANGED <<now, tenant, subscription, aggs, ext, extCalls, hist, nreq, applied, clockOut>>

\* documentUsageEvent.create; P2002: answer 200 'duplicate'
IngCreate(p) ==
    LET l == proc[p] IN
    /\ l.pc = "ing_create"
    /\ IF EventKeyTaken(events, l.t, l.key)
       THEN /\ SetProc(p, Done([l EXCEPT !.resp = [status |-> 200,
                                                    body |-> "duplicate"]]))
            /\ hist' = Bump(hist, l, "duplicate")
            /\ UNCHANGED events
       ELSE /\ events' = events \cup
                   {[customerId |-> l.t, idempotencyKey |-> l.key,
                     pagesSpent |-> l.pagesSpent.whole, rowsUsed |-> l.rowsUsed.whole,
                     timestamp |-> l.ts]}
            /\ SetProc(p, [l EXCEPT !.pc = "ing_upsert"])
            /\ UNCHANGED hist
    /\ UNCHANGED <<now, tenant, subscription, aggs, ext, extCalls, nreq, applied, clockOut>>

\* documentUsageAggregate.upsert; then checkAndPauseIfNeeded is started and not
\* awaited, and 201 'created' is answered
IngUpsert(p) ==
    LET l == proc[p] IN
    /\ l.pc = "ing_upsert"
    /\ aggs' = UpsertAggregate(aggs, l.t, setHoursZero(l.ts), l.pagesSpent.whole,
                                l.rowsUsed.whole)
    /\ hist' = Bump(Bump(hist, l, "upserts"), l, "created")
    /\ SetProc(p, [Begin("ingest", l.t) EXCEPT
                      !.pc = "amr_read", !.stack = <<"cap_read", "end">>,
                      !.resp = [status |-> 201, body |-> "created"]])
    /\ UNCHANGED <<now, tenant, subscription, events, ext, extCalls, nreq, applied, clockOut>>

\* A store call of the handler rejects with an error other than P2002 (the
\* findUnique, the create, or the upsert after the event was stored): the inner
\* catch rethrows, the outer catch calls next(error), the request is answered 500.
\* Nothing the handler has already written is undone.
IngFault(p) ==
    LET l == proc[p] IN
    /\ l.pc \in {"ing_find", "ing_create", "ing_upsert"}
    /\ SetProc(p, Done([l EXCEPT !.resp = [status |-> 500, body |-> "error"]]))
    /\ UNCHANGED <<now, db, ext, extCalls, hist, nreq, applied, clockOut>>

(***************************************************************************)
(* The clock                                                               *)
(***************************************************************************)
MaxTicks == 1

StartDate == MakeDate(2025, 0, 4) + 1

Tick ==
    /\ \A p \in Procs : Free(p)
    /\ now < StartDate + MaxTicks
    /\ now' = now + 1
    /\ UNCHANGED <<db, ext, extCalls, proc, hist, nreq, applied, clockOut>>

(***************************************************************************)
(* Ingestion under concurrency                                             *)
(***************************************************************************)
FreshRow ==
    [pagesLimit |-> 5000, rowsLimit |-> 5000, addonPagesLimit |-> 0,
     addonRowsLimit |-> 0, scenariosPaused |-> FALSE, lastResetAt |-> NoDate,
     makeApiKey |-> TRUE]

NoCalls == [m \in {"stop", "start"} |-> [t \in Tenants |-> [s \in Scen |-> 0]]]

NoHist == [k \in HistKeys |-> [created |-> 0, duplicate |-> 0, upserts |-> 0]]

Whole(n) == [whole |-> n, frac |-> FALSE]

\* The request bodies sent: two valid payloads, a negative pagesSpent, a pagesSpent
\* of 1.5, a negative rowsUsed, and bodies that name no tenant.  None carries a
\* timestamp, so the event is dated now.
IngestBodies ==
    {[customerId |-> "t1", pagesSpent |-> Whole(20), rowsUsed |-> Whole(150)],
     [customerId |-> "t1", pagesSpent |-> Whole(4980), rowsUsed |-> Whole(150)],
     [customerId |-> "t1", pagesSpent |-> Whole(0 - 10), rowsUsed |-> Whole(150)],
     [customerId |-> "t1", pagesSpent |-> [whole |-> 1, frac |-> TRUE],
      rowsUsed |-> Whole(150)],
     [customerId |-> "t1", pagesSpent |-> Whole(20), rowsUsed |-> Whole(0 - 1)],
     [customerId |-> UnknownCustomer, pagesSpent |-> Whole(20), rowsUsed |-> Whole(150)],
     [customerId |-> UnknownCustomer, pagesSpent |-> Whole(0 - 10),
      rowsUsed |-> Whole(150)]}

InitIngest ==
    /\ now = StartDate
    /\ tenant = [t \in Tenants |-> FreshRow]
    /\ subscription \in [Tenants -> {"active"}]
    /\ events = {}
    /\ aggs = {}
    /\ ext = [t \in Tenants |-> [s \in Scen |-> TRUE]]
    /\ extCalls = NoCalls
    /\ proc = [p \in Procs |-> Idle]
    /\ hist = NoHist
    /\ nreq = 0
    /\ applied = [t \in Tenants |-> NoDate]
    /\ clockOut = [expected |-> NoDate, next |-> NoDate]

Ingest(p) ==
    \/ \E b \in IngestBodies, h \in HeaderKeys \cup {NoHeader} :
            StartIngest(p, b.customerId, h, b.pagesSpent, b.rowsUsed, NoDate)
    \/ IngFind(p)
    \/ IngCreate(p)
    \/ IngUpsert(p)

Evaluate(p) ==
    \/ AmrRead(p)
    \/ AmrSub(p)
    \/ AmrUpdate(p)
    \/ CapRead(p)
    \/ CapUsage(p)
    \/ PsKey(p)
    \/ PsFetch(p)
    \/ PsCall(p)
    \/ PsFlag(p)

NextIngest == \E p \in Procs : Ingest(p) \/ Evaluate(p)

SpecIngest == InitIngest /\ [][NextIngest]_vars

(***************************************************************************)
(* GET /v1/billing/usage-status                                            *)
(***************************************************************************)
StartUsageStatus(p, tenantId) ==
    /\ CanStart(p)
    /\ nreq' = nreq + 1
    /\ SetProc(p, [Begin("usageStatus", tenantId) EXCEPT
                      !.pc = "amr_read", !.stack = <<"us_read">>,
                      !.atStart = tenant[tenantId]])
    /\ UNCHANGED <<now, db, ext, extCalls, hist, applied, clockOut>>

\* findUnique of limits, flag and lastResetAt; the 1000 -> 5000 migration test
UsRead(p) ==
    LET l == proc[p]
        row == tenant[l.t]
    IN
    /\ l.pc = "us_read"
    /\ SetProc(p, IF row.pagesLimit <= 1000 /\ row.rowsLimit <= 1000
                  THEN [l EXCEPT !.snap = row, !.pc = "us_migrate"]
                  ELSE [l EXCEPT !.snap = row, !.periodStart = periodStartOf(row, now),
                                 !.pc = "us_usage"])
    /\ UNCHANGED <<now, db, ext, extCalls, hist, nreq, applied, clockOut>>

\* update({ pagesLimit: 5000, rowsLimit: 5000 }) and the same on the local copy
UsMigrate(p) ==
    LET l == proc[p]
        row == [l.snap EXCEPT !.pagesLimit = 5000, !.rowsLimit = 5000]
    IN
    /\ l.pc = "us_migrate"
    /\ tenant' = [tenant EXCEPT ![l.t].pagesLimit = 5000, ![l.t].rowsLimit = 5000]
    /\ SetProc(p, [l EXCEPT !.snap = row, !.periodStart = periodStartOf(row, now),
                            !.pc = "us_usage"])
    /\ UNCHANGED <<now, subscription, events, aggs, ext, extCalls, hist, nreq, applied, clockOut>>

\* getCurrentPeriodUsage; addonUsed = Math.max(0, usage - base limit)
Max0(x) == IF x > 0 THEN x ELSE 0

UsUsage(p) ==
    LET l == proc[p]
        usage == getCurrentPeriodUsage(aggs, l.t, l.periodStart)
    IN
    /\ l.pc = "us_usage"
    /\ SetProc(p, [l EXCEPT !.usage = usage, !.pc = "us_sub",
                            !.out = [addonPagesUsed |-> Max0(usage.pages - l.snap.pagesLimit),
                                     addonRowsUsed |-> Max0(usage.rows - l.snap.rowsLimit),
                                     pagesLimit |-> l.snap.pagesLimit,
                                     rowsLimit |-> l.snap.rowsLimit]])
    /\ UNCHANGED <<now, db, ext, extCalls, hist, nreq, applied, clockOut>>

\* subscription.findUnique; res.json(...)
UsSub(p) ==
    LET l == proc[p] IN
    /\ l.pc = "us_sub"
    /\ SetProc(p, Done([l EXCEPT !.resp = [status |-> 200, body |-> "usage-status"]]))
    /\ UNCHANGED <<now, db, ext, extCalls, hist, nreq, applied, clockOut>>

UsageStatus(p) == UsRead(p) \/ UsMigrate(p) \/ UsUsage(p) \/ UsSub(p)

(***************************************************************************)
(* POST /v1/billing/stripe-webhook, checkout.session.completed with        *)
(* well-formed metadata                                                    *)
(***************************************************************************)
\* if (tenantId && addonType && addonQuantity > 0) ... else warn; res.json({ received })
StartWebhook(p, tenantId, addonType, rawQuantity) ==
    LET addonQuantity == parseIntMeta(rawQuantity)
        l == [Begin("webhook", tenantId) EXCEPT
                 !.addonType = addonType, !.addonQuantity = addonQuantity]
    IN
    /\ CanStart(p)
    /\ nreq' = nreq + 1
    /\ SetProc(p, IF tenantId # NoTenant /\ addonType # NoType /\ addonQuantity > 0
                  THEN [l EXCEPT !.pc = "wh_read"]
                  ELSE Done([l EXCEPT !.resp = [status |-> 200, body |-> "received"]]))
    /\ UNCHANGED <<now, db, ext, extCalls, hist, applied, clockOut>>

\* findUnique({ select: { addonPagesLimit | addonRowsLimit } });
\* (current?.addonXLimit ?? 0) + quantity; every addonType but 'pages' takes the
\* else branch
WhRead(p) ==
    LET l == proc[p]
        current == IF l.t \notin Tenants THEN 0
                   ELSE IF l.addonType = "pages" THEN tenant[l.t].addonPagesLimit
                   ELSE tenant[l.t].addonRowsLimit
    IN
    /\ l.pc = "wh_read"
    /\ SetProc(p, [l EXCEPT !.updateData = current + l.addonQuantity,
                            !.pc = "wh_update"])
    /\ UNCHANGED <<now, db, ext, extCalls, hist, nreq, applied, clockOut>>

\* tenant.update({ data: updateData }); then checkAndResumeIfPossible.  update
\* rejects when no row has the id: the handler's catch passes the error to
\* next(error) and no { received: true } is sent.
WhUpdate(p) ==
    LET l == proc[p] IN
    /\ l.pc = "wh_update"
    /\ IF l.t \notin Tenants
       THEN /\ UNCHANGED tenant
            /\ SetProc(p, Done([l EXCEPT !.resp = [status |-> 500, body |-> "error"]]))
       ELSE /\ tenant' = IF l.addonType = "pages"
                         THEN [tenant EXCEPT ![l.t].addonPagesLimit = l.updateData]
                         ELSE [tenant EXCEPT ![l.t].addonRowsLimit = l.updateData]
            /\ SetProc(p, [Begin("webhook", l.t) EXCEPT
                              !.pc = "car_read", !.stack = <<"received">>,
                              !.addonType = l.addonType,
                              !.addonQuantity = l.addonQuantity])
    /\ UNCHANGED <<now, subscription, events, aggs, ext, extCalls, hist, nreq, applied, clockOut>>

Webhook(p) == WhRead(p) \/ WhUpdate(p)

(***************************************************************************)
(* Purchase webhooks under concurrency.  Tenant t1 has used 6000 pages of  *)
(* 5000 in the current period and is either paused (scenarios stopped) or  *)
(* running.                                                                *)
(***************************************************************************)
WebhookMetas ==
    {[tenantId |-> "t1", addonType |-> "pages", addonQuantity |-> MetaNum(2000)],
     [tenantId |-> "t1", addonType |-> "pages", addonQuantity |-> MetaNum(1000)],
     [tenantId |-> "t1", addonType |-> "rows", addonQuantity |-> MetaNum(2000)],
     [tenantId |-> NoTenant, addonType |-> "pages", addonQuantity |-> MetaNum(2000)],
     [tenantId |-> "t1", addonType |-> NoType, addonQuantity |-> MetaNum(2000)],
     [tenantId |-> "t1", addonType |-> "credits", addonQuantity |-> MetaNum(2000)],
     [tenantId |-> "t1", addonType |-> "pages", addonQuantity |-> MetaAbsent],
     [tenantId |-> "t1", addonType |-> "pages", addonQuantity |-> MetaText],
     [tenantId |-> "t1", addonType |-> "pages", addonQuantity |-> MetaNum(0)],
     [tenantId |-> UnknownCustomer, addonType |-> "pages",
      addonQuantity |-> MetaNum(2000)]}

InitWebhook ==
    /\ now = MakeDate(2025, 0, 4) + 1
    /\ \E paused \in BOOLEAN :
          /\ tenant = [t \in Tenants |->
                         IF t = "t1"
                         THEN [pagesLimit |-> 5000, rowsLimit |-> 5000,
                               addonPagesLimit |-> 0, addonRowsLimit |-> 0,
                               scenariosPaused |-> paused,
                               lastResetAt |-> MakeDate(2024, 11, 5),
                               makeApiKey |-> TRUE]
                         ELSE [pagesLimit |-> 5000, rowsLimit |-> 5000,
                               addonPagesLimit |-> 0, addonRowsLimit |-> 0,
                               scenariosPaused |-> FALSE, lastResetAt |-> NoDate,
                               makeApiKey |-> TRUE]]
          /\ ext = [t \in Tenants |-> [s \in Scen |-> t # "t1" \/ ~paused]]
    /\ subscription = [t \in Tenants |-> "active"]
    /\ events = {[customerId |-> "t1", idempotencyKey |-> [gen |-> TRUE, id |-> 0],
                  pagesSpent |-> 6000, rowsUsed |-> 0,
                  timestamp |-> MakeDate(2024, 11, 20) + 1]}
    /\ aggs = {[customerId |-> "t1", date |-> MakeDate(2024, 11, 20),
                pagesSpent |-> 6000, rowsUsed |-> 0, eventCount |-> 1]}
    /\ extCalls = [m \in {"stop", "start"} |-> [t \in Tenants |-> [s \in Scen |-> 0]]]
    /\ proc = [p \in Procs |-> Idle]
    /\ hist = [k \in HistKeys |-> [created |-> 0, duplicate |-> 0, upserts |-> 0]]
    /\ nreq = 0
    /\ applied = [t \in Tenants |-> NoDate]
    /\ clockOut = [expected |-> NoDate, next |-> NoDate]

NextWebhook ==
    \E p \in Procs :
        \/ \E m \in WebhookMetas : StartWebhook(p, m.tenantId, m.addonType, m.addonQuantity)
        \/ WhRead(p)
        \/ WhUpdate(p)
        \/ CarRead(p)
        \/ CarUsage(p)
        \/ PsKey(p)
        \/ PsFetch(p)
        \/ PsCall(p)
        \/ PsFlag(p)
        \/ EngineFault(p)

SpecWebhook == InitWebhook /\ [][NextWebhook]_vars

(***************************************************************************)
(* POST /v1/billing/reset-usage                                            *)
(***************************************************************************)
StartAdminReset(p, tenantId) ==
    /\ CanStart(p)
    /\ nreq' = nreq + 1
    /\ SetProc(p, [Begin("adminReset", tenantId) EXCEPT
                      !.pc = "ar_events", !.atStart = tenant[tenantId]])
    /\ UNCHANGED <<now, db, ext, extCalls, hist, applied, clockOut>>

\* The reset without the deletion of the events.
ArEventsKept(p) ==
    LET l == proc[p] IN
    /\ l.pc = "ar_events"
    /\ SetProc(p, [l EXCEPT !.pc = "ar_aggs"])
    /\ UNCHANGED <<now, db, ext, extCalls, hist, nreq, applied, clockOut>>

\* documentUsageEvent.deleteMany({ where: { customerId } })
ArEvents(p) ==
    LET l == proc[p] IN
    /\ l.pc = "ar_events"
    /\ events' = {e \in events : e.customerId # l.t}
    /\ SetProc(p, [l EXCEPT !.pc = "ar_aggs"])
    /\ UNCHANGED <<now, tenant, subscription, aggs, ext, extCalls, hist, nreq, applied, clockOut>>

\* documentUsageAggregate.deleteMany({ where: { customerId } })
ArAggs(p) ==
    LET l == proc[p] IN
    /\ l.pc = "ar_aggs"
    /\ aggs' = {a \in aggs : a.customerId # l.t}
    /\ SetProc(p, [l EXCEPT !.pc = "ar_update"])
    /\ UNCHANGED <<now, tenant, subscription, events, ext, extCalls, hist, nreq, applied, clockOut>>

\* The update with lastResetAt: new Date() left at the time of day.
ArUpdateNotMidnight(p) ==
    LET l == proc[p] IN
    /\ l.pc = "ar_update"
    /\ tenant' = [tenant EXCEPT ![l.t].lastResetAt = now,
                                ![l.t].scenariosPaused = FALSE]
    /\ SetProc(p, resumeAllScenarios(l, "deleted"))
    /\ UNCHANGED <<now, subscription, events, aggs, ext, extCalls, hist, nreq, applied, clockOut>>

\* resetDate.setHours(0, 0, 0, 0); tenant.update({ lastResetAt: resetDate,
\* scenariosPaused: false }); then resumeAllScenarios and res.json
ArUpdate(p) ==
    LET l == proc[p] IN
    /\ l.pc = "ar_update"
    /\ tenant' = [tenant EXCEPT ![l.t].lastResetAt = setHoursZero(now),
                                ![l.t].scenariosPaused = FALSE]
    /\ SetProc(p, resumeAllScenarios(l, "deleted"))
    /\ UNCHANGED <<now, subscription, events, aggs, ext, extCalls, hist, nreq, applied, clockOut>>

AdminReset(p) == ArEvents(p) \/ ArAggs(p) \/ ArUpdate(p)

(***************************************************************************)
(* Direct calls of the quota engine, and the operator routes               *)
(* POST /v1/integrations/make/pause-all and /resume-all                    *)
(***************************************************************************)
StartCheckAndPause(p, tenantId) ==
    /\ CanStart(p)
    /\ nreq' = nreq + 1
    /\ SetProc(p, [Begin("checkAndPause", tenantId) EXCEPT
                      !.pc = "amr_read", !.stack = <<"cap_read", "end">>])
    /\ UNCHANGED <<now, db, ext, extCalls, hist, applied, clockOut>>

StartCheckAndResume(p, tenantId) ==
    /\ CanStart(p)
    /\ nreq' = nreq + 1
    /\ SetProc(p, [Begin("checkAndResume", tenantId) EXCEPT
                      !.pc = "car_read", !.stack = <<"end">>])
    /\ UNCHANGED <<now, db, ext, extCalls, hist, applied, clockOut>>

StartMonthlyReset(p, tenantId) ==
    /\ CanStart(p)
    /\ nreq' = nreq + 1
    /\ SetProc(p, [Begin("monthlyReset", tenantId) EXCEPT
                      !.pc = "amr_read", !.stack = <<"end">>])
    /\ UNCHANGED <<now, db, ext, extCalls, hist, applied, clockOut>>

StartPauseAll(p, tenantId) ==
    /\ CanStart(p)
    /\ nreq' = nreq + 1
    /\ SetProc(p, [Begin("pauseAll", tenantId) EXCEPT
                      !.pc = "ps_key", !.mode = "stop", !.stack = <<"end">>])
    /\ UNCHANGED <<now, db, ext, extCalls, hist, applied, clockOut>>

StartResumeAll(p, tenantId) ==
    /\ CanStart(p)
    /\ nreq' = nreq + 1
    /\ SetProc(p, [Begin("resumeAll", tenantId) EXCEPT
                      !.pc = "ps_key", !.mode = "start", !.stack = <<"end">>])
    /\ UNCHANGED <<now, db, ext, extCalls, hist, applied, clockOut>>

(***************************************************************************)
(* The quota engine, one request at a time.  The store starts with usage   *)
(* already ingested for tenant t1: one day before the current period and   *)
(* one day inside it.                                                      *)
(***************************************************************************)
OldDay == MakeDate(2024, 10, 20)

SeedDay == MakeDate(2024, 11, 20)

\* <<pages, rows>> used inside the period
SeedUsage == {<<1500, 0>>, <<4999, 0>>, <<5000, 0>>, <<6000, 0>>, <<4999, 5000>>}

SeedLimits == {<<1000, 1000>>, <<1000, 5000>>, <<5000, 5000>>}

SeedEvent(id, day, pages, rows) ==
    [customerId |-> "t1", idempotencyKey |-> [gen |-> TRUE, id |-> 0 - id],
     pagesSpent |-> pages, rowsUsed |-> rows, timestamp |-> day + 1]

SeedAggregate(day, pages, rows) ==
    [customerId |-> "t1", date |-> day, pagesSpent |-> pages, rowsUsed |-> rows,
     eventCount |-> 1]

InitQuota ==
    /\ now = StartDate
    /\ \E lim \in SeedLimits, key \in BOOLEAN, last \in {NoDate, MakeDate(2024, 11, 5)} :
          tenant = [t \in Tenants |->
                      IF t = "t1"
                      THEN [FreshRow EXCEPT !.pagesLimit = lim[1], !.rowsLimit = lim[2],
                                            !.makeApiKey = key, !.lastResetAt = last]
                      ELSE FreshRow]
    /\ subscription \in [Tenants -> {"active", "canceled"}]
    /\ subscription["t2"] = "active"
    /\ \E u \in SeedUsage :
          /\ events = {SeedEvent(1, OldDay, 6000, 0), SeedEvent(2, SeedDay, u[1], u[2])}
          /\ aggs = {SeedAggregate(OldDay, 6000, 0), SeedAggregate(SeedDay, u[1], u[2])}
    /\ ext = [t \in Tenants |-> [s \in Scen |-> TRUE]]
    /\ extCalls = NoCalls
    /\ proc = [p \in Procs |-> Idle]
    /\ hist = NoHist
    /\ nreq = 0
    /\ applied = [t \in Tenants |-> NoDate]
    /\ clockOut = [expected |-> NoDate, next |-> NoDate]

AddonQuantities == {2000}

StartQuota(p) ==
    \/ StartCheckAndPause(p, "t1")
    \/ StartCheckAndResume(p, "t1")
    \/ StartMonthlyReset(p, "t1")
    \/ StartPauseAll(p, "t1")
    \/ StartResumeAll(p, "t1")
    \/ StartUsageStatus(p, "t1")
    \/ \E ty \in {"pages", "rows"}, q \in AddonQuantities :
          StartWebhook(p, "t1", ty, MetaNum(q))

NextQuota ==
    \/ StartQuota(1)
    \/ Evaluate(1)
    \/ CarRead(1)
    \/ CarUsage(1)
    \/ UsageStatus(1)
    \/ Webhook(1)
    \/ Tick

SpecQuota == InitQuota /\ [][NextQuota]_vars

(***************************************************************************)
(* Every path that reads or writes the paused flag, one request at a time: *)
(* the quota engine, the operator routes, the status query, the purchase   *)
(* webhook, the administrative reset and ingestion.                        *)
(***************************************************************************)
PathLimits == {<<1000, 1000>>, <<5000, 5000>>}

PathUsage == {<<4999, 0>>, <<6000, 0>>}

InitPaths ==
    /\ now = StartDate
    /\ \E lim \in PathLimits, key \in BOOLEAN, last \in {NoDate, MakeDate(2024, 11, 5)} :
          tenant = [t \in Tenants |->
                      IF t = "t1"
                      THEN [FreshRow EXCEPT !.pagesLimit = lim[1], !.rowsLimit = lim[2],
                                            !.makeApiKey = key, !.lastResetAt = last]
                      ELSE FreshRow]
    /\ subscription \in [Tenants -> {"active", "canceled"}]
    /\ subscription["t2"] = "active"
    /\ \E u \in PathUsage :
          /\ events = {SeedEvent(1, OldDay, 6000, 0), SeedEvent(2, SeedDay, u[1], u[2])}
          /\ aggs = {SeedAggregate(OldDay, 6000, 0), SeedAggregate(SeedDay, u[1], u[2])}
    /\ ext = [t \in Tenants |-> [s \in Scen |-> TRUE]]
    /\ extCalls = NoCalls
    /\ proc = [p \in Procs |-> Idle]
    /\ hist = NoHist
    /\ nreq = 0
    /\ applied = [t \in Tenants |-> NoDate]
    /\ clockOut = [expected |-> NoDate, next |-> NoDate]

NextPaths ==
    \/ StartQuota(1)
    \/ StartAdminReset(1, "t1")
    \/ StartIngest(1, "t1", NoHeader, Whole(20), Whole(150), NoDate)
    \/ IngFind(1)
    \/ IngCreate(1)
    \/ IngUpsert(1)
    \/ Evaluate(1)
    \/ CarRead(1)
    \/ CarUsage(1)
    \/ UsageStatus(1)
    \/ Webhook(1)
    \/ AdminReset(1)
    \/ Tick

SpecPaths == InitPaths /\ [][NextPaths]_vars

(***************************************************************************)
(* Ingestion with failing store calls, failing evaluations and concurrent  *)
(* administrative resets.  Tenant t1 starts with usage inside the period,  *)
(* under or over its limit, and with or without a reset already applied.   *)
(***************************************************************************)
InitFaults ==
    /\ now = StartDate
    /\ \E last \in {NoDate, MakeDate(2024, 11, 5)} :
          tenant = [t \in Tenants |->
                      IF t = "t1" THEN [FreshRow EXCEPT !.lastResetAt = last]
                      ELSE FreshRow]
    /\ subscription = [t \in Tenants |-> "active"]
    /\ \E u \in PathUsage :
          /\ events = {SeedEvent(2, SeedDay, u[1], u[2])}
          /\ aggs = {SeedAggregate(SeedDay, u[1], u[2])}
    /\ ext = [t \in Tenants |-> [s \in Scen |-> TRUE]]
    /\ extCalls = NoCalls
    /\ proc = [p \in Procs |-> Idle]
    /\ hist = NoHist
    /\ nreq = 0
    /\ applied = [t \in Tenants |-> NoDate]
    /\ clockOut = [expected |-> NoDate, next |-> NoDate]

NextFaults ==
    \E p \in Procs :
        \/ \E h \in HeaderKeys \cup {NoHeader} :
                StartIngest(p, "t1", h, Whole(20), Whole(150), NoDate)
        \/ StartAdminReset(p, "t1")
        \/ IngFind(p)
        \/ IngCreate(p)
        \/ IngUpsert(p)
        \/ IngFault(p)
        \/ Evaluate(p)
        \/ EngineFault(p)
        \/ AdminReset(p)

SpecFaults == InitFaults /\ [][NextFaults]_vars

(***************************************************************************)
(* The quota engine with failing store calls, one request at a time.       *)
(* Tenant t1 starts running or paused (its scenarios stopped), under or    *)
(* over its limit, with or without a reset already applied this period.    *)
(***************************************************************************)
InitEngine ==
    /\ now = StartDate
    /\ \E key \in BOOLEAN, paused \in BOOLEAN, last \in {NoDate, MakeDate(2024, 11, 5)} :
          /\ tenant = [t \in Tenants |->
                         IF t = "t1"
                         THEN [FreshRow EXCEPT !.makeApiKey = key, !.lastResetAt = last,
                                               !.scenariosPaused = paused]
                         ELSE FreshRow]
          /\ ext = [t \in Tenants |-> [s \in Scen |-> ~(t = "t1" /\ paused)]]
    /\ subscription \in [Tenants -> {"active", "canceled"}]
    /\ subscription["t2"] = "active"
    /\ \E u \in PathUsage :
          /\ events = {SeedEvent(2, SeedDay, u[1], u[2])}
          /\ aggs = {SeedAggregate(SeedDay, u[1], u[2])}
    /\ extCalls = NoCalls
    /\ proc = [p \in Procs |-> Idle]
    /\ hist = NoHist
    /\ nreq = 0
    /\ applied = [t \in Tenants |-> NoDate]
    /\ clockOut = [expected |-> NoDate, next |-> NoDate]

\* Every store call succeeds; calls to the workflow platform may fail.
NextReconcile ==
    \/ StartCheckAndPause(1, "t1")
    \/ StartCheckAndResume(1, "t1")
    \/ StartMonthlyReset(1, "t1")
    \/ StartAdminReset(1, "t1")
    \/ Evaluate(1)
    \/ CarRead(1)
    \/ CarUsage(1)
    \/ AdminReset(1)
    \/ Tick

SpecReconcile == InitEngine /\ [][NextReconcile]_vars

NextEngine ==
    \/ NextReconcile
    \/ EngineFault(1)
    \/ PsFlagFault(1)

SpecEngine == InitEngine /\ [][NextEngine]_vars

(***************************************************************************)
(* Concurrent quota evaluations, monthly resets and administrative resets  *)
(* of one tenant.  Tenant t1 is over its limit, running or paused, and its *)
(* last reset is that of the period before or that of this period.         *)
(***************************************************************************)
InitRace ==
    /\ now = StartDate
    /\ \E paused \in BOOLEAN, last \in {MakeDate(2024, 10, 5), MakeDate(2024, 11, 5)} :
          /\ tenant = [t \in Tenants |->
                         IF t = "t1"
                         THEN [FreshRow EXCEPT !.lastResetAt = last,
                                               !.scenariosPaused = paused]
                         ELSE FreshRow]
          /\ ext = [t \in Tenants |-> [s \in Scen |-> ~(t = "t1" /\ paused)]]
    /\ subscription = [t \in Tenants |-> "active"]
    /\ events = {SeedEvent(2, SeedDay, 6000, 0)}
    /\ aggs = {SeedAggregate(SeedDay, 6000, 0)}
    /\ extCalls = NoCalls
    /\ proc = [p \in Procs |-> Idle]
    /\ hist = NoHist
    /\ nreq = 0
    /\ applied = [t \in Tenants |-> NoDate]
    /\ clockOut = [expected |-> NoDate, next |-> NoDate]

NextRace ==
    \E p \in Procs :
        \/ StartCheckAndPause(p, "t1")
        \/ StartMonthlyReset(p, "t1")
        \/ StartAdminReset(p, "t1")
        \/ Evaluate(p)
        \/ AdminReset(p)

SpecRace == InitRace /\ [][NextRace]_vars

(***************************************************************************)
(* The period over which usage is summed: administrative resets in the     *)
(* middle of a period, events dated today or on an earlier day, and the    *)
(* three readers of period usage, one request at a time.                   *)
(***************************************************************************)
\* timestamp of the request body: absent, or the day before the first day
EventTimestamps == {NoDate, StartDate - TicksPerDay}

NextPeriod ==
    \/ StartAdminReset(1, "t1")
    \/ \E ts \in EventTimestamps :
            StartIngest(1, "t1", NoHeader, Whole(6000), Whole(0), ts)
    \/ StartCheckAndResume(1, "t1")
    \/ StartUsageStatus(1, "t1")
    \/ IngFind(1)
    \/ IngCreate(1)
    \/ IngUpsert(1)
    \/ Evaluate(1)
    \/ CarRead(1)
    \/ CarUsage(1)
    \/ UsRead(1)
    \/ UsUsage(1)
    \/ UsSub(1)
    \/ AdminReset(1)
    \/ Tick

SpecPeriod == InitEngine /\ [][NextPeriod]_vars

(***************************************************************************)
(* Two tenants, one request at a time.  Each has one stored event of the   *)
(* same day under the same idempotency key; t1 is over its limit, t2 under *)
(* it, and the usage of both together is over it.                          *)
(***************************************************************************)
SharedKey == CHOOSE k \in HeaderKeys : TRUE

TenantUsage == [t \in Tenants |-> IF t = "t1" THEN 6000 ELSE 4999]

InitTenants ==
    /\ now = StartDate
    /\ tenant = [t \in Tenants |->
                   [FreshRow EXCEPT !.lastResetAt = MakeDate(2024, 11, 5)]]
    /\ subscription = [t \in Tenants |-> "active"]
    /\ events = {[customerId |-> t, idempotencyKey |-> SharedKey,
                  pagesSpent |-> TenantUsage[t], rowsUsed |-> 0,
                  timestamp |-> SeedDay + 1] : t \in Tenants}
    /\ aggs = {[customerId |-> t, date |-> SeedDay, pagesSpent |-> TenantUsage[t],
                rowsUsed |-> 0, eventCount |-> 1] : t \in Tenants}
    /\ ext = [t \in Tenants |-> [s \in Scen |-> TRUE]]
    /\ extCalls = NoCalls
    /\ proc = [p \in Procs |-> Idle]
    /\ hist = NoHist
    /\ nreq = 0
    /\ applied = [t \in Tenants |-> NoDate]
    /\ clockOut = [expected |-> NoDate, next |-> NoDate]

StartTenants(p) ==
    \E t \in Tenants :
        \/ \E h \in {SharedKey, NoHeader} :
                StartIngest(p, t, h, Whole(20), Whole(150), NoDate)
        \/ StartCheckAndPause(p, t)
        \/ StartCheckAndResume(p, t)
        \/ StartMonthlyReset(p, t)
        \/ StartPauseAll(p, t)
        \/ StartResumeAll(p, t)
        \/ StartWebhook(p, t, "pages", MetaNum(2000))
        \/ StartAdminReset(p, t)

NextTenants ==
    \/ StartTenants(1)
    \/ IngFind(1)
    \/ IngCreate(1)
    \/ IngUpsert(1)
    \/ Evaluate(1)
    \/ CarRead(1)
    \/ CarUsage(1)
    \/ Webhook(1)
    \/ AdminReset(1)
    \/ Tick

SpecTenants == InitTenants /\ [][NextTenants]_vars

(***************************************************************************)
(* The period calculator on its own: every instant of ClockDays days from  *)
(* 1 December 2023, a span with a leap February and two year ends.         *)
(***************************************************************************)
ClockDays == 400

ClockStart == MakeDate(2023, 11, 1)

InitClock ==
    /\ now \in ClockStart .. (ClockStart + ClockDays * TicksPerDay - 1)
    /\ tenant = [t \in Tenants |-> FreshRow]
    /\ subscription = [t \in Tenants |-> "active"]
    /\ events = {}
    /\ aggs = {}
    /\ ext = [t \in Tenants |-> [s \in Scen |-> TRUE]]
    /\ extCalls = NoCalls
    /\ proc = [p \in Procs |-> Idle]
    /\ hist = NoHist
    /\ nreq = 0
    /\ applied = [t \in Tenants |-> NoDate]
    /\ clockOut = [expected |-> NoDate, next |-> NoDate]

ClockEval ==
    /\ clockOut.expected = NoDate
    /\ clockOut' = [expected |-> getExpectedResetDate(now), next |-> getNextResetDate(now)]
    /\ UNCHANGED <<now, db, ext, extCalls, proc, hist, nreq, applied>>

SpecClock == InitClock /\ [][ClockEval]_vars

(***************************************************************************)
(* Properties                                                              *)
(***************************************************************************)
EventsOf(t, id) ==
    {e \in events : e.customerId = t /\ e.idempotencyKey = [gen |-> FALSE, id |-> id]}

Creating(t, id) ==
    {p \in Procs : /\ proc[p].pc \in {"ing_find", "ing_create", "ing_upsert"}
                   /\ proc[p].t = t
                   /\ proc[p].key = [gen |-> FALSE, id |-> id]}

\* C1: calls that carry the same (tenantId, Idempotency-Key) leave one stored event
\* and one aggregate increment for the pair, whatever their payloads and however
\* they interleave; once none of them is in flight, one of them has answered
\* 201 'created' and every other one 200 'duplicate'.
C1_Idempotent ==
    \A t \in Tenants, i \in {k.id : k \in HeaderKeys} :
        LET h == hist[KeyOf(t, i)] IN
        /\ Cardinality(EventsOf(t, i)) <= 1
        /\ h.created <= 1
        /\ h.upserts <= 1
        /\ h.duplicate >= 1 => Cardinality(EventsOf(t, i)) = 1
        /\ (Creating(t, i) = {} /\ h.created + h.duplicate >= 1) =>
              /\ Cardinality(EventsOf(t, i)) = 1
              /\ h.created = 1
              /\ h.upserts = 1

C1_Witness ==
    \E t \in Tenants, i \in {k.id : k \in HeaderKeys} :
        /\ hist[KeyOf(t, i)].created = 1
        /\ hist[KeyOf(t, i)].duplicate = 1
        /\ Creating(t, i) = {}

DayEvents(t, d) == {e \in events : e.customerId = t /\ setHoursZero(e.timestamp) = d}

DaysOf(t) ==
    {setHoursZero(e.timestamp) : e \in {x \in events : x.customerId = t}}
        \cup {a.date : a \in {x \in aggs : x.customerId = t}}

AggregateMatches(t, d) ==
    LET R == {a \in aggs : a.customerId = t /\ a.date = d} IN
    /\ Cardinality(R) = 1
    /\ \A a \in R : /\ a.pagesSpent = SumPages(DayEvents(t, d))
                    /\ a.rowsUsed = SumRows(DayEvents(t, d))
                    /\ a.eventCount = Cardinality(DayEvents(t, d))

\* C2: once every accepted ingest call has done its aggregate upsert, the row of
\* (tenant, day) holds the sums of pagesSpent and rowsUsed of that day's events
\* and their number, whatever the interleaving.
C2_AggregateIsSum ==
    (\A p \in Procs : proc[p].pc # "ing_upsert") =>
        \A t \in Tenants : \A d \in DaysOf(t) : AggregateMatches(t, d)

C2_Witness ==
    /\ \A p \in Procs : proc[p].pc \notin {"ing_find", "ing_create", "ing_upsert"}
    /\ \E a \in aggs : a.eventCount >= 2 /\ a.pagesSpent = 5000

ValidPayload(pagesSpent, rowsUsed) ==
    /\ ~pagesSpent.frac /\ pagesSpent.whole >= 0
    /\ ~rowsUsed.frac /\ rowsUsed.whole >= 0

FailedIngest(l) ==
    /\ l.op = "ingest"
    /\ \/ l.t \notin Tenants
       \/ ~ValidPayload(l.pagesSpent, l.rowsUsed)

\* C10: an ingest call with a negative or non-integer pagesSpent or rowsUsed is
\* answered 400 and one for an unknown customerId 404; neither stores an event,
\* changes an aggregate row or a tenant, or starts a quota evaluation.
C10_FailedIngestNoEffect ==
    /\ [](\A p \in Procs :
            LET l == proc[p] IN
            /\ (l.op = "ingest" /\ ~ValidPayload(l.pagesSpent, l.rowsUsed)) =>
                  (l.pc = "done" /\ l.resp.status = 400)
            /\ (l.op = "ingest" /\ l.t \notin Tenants) =>
                  \/ l.pc = "ing_find"
                  \/ l.pc = "done" /\ l.resp.status \in {400, 404})
    /\ [][\A p \in Procs :
            (proc'[p] # proc[p] /\ FailedIngest(proc'[p])) =>
                UNCHANGED <<tenant, subscription, events, aggs, ext, extCalls, hist>>]_vars

C10_Witness ==
    \E p, q \in Procs :
        /\ proc[p].op = "ingest" /\ proc[p].resp.status = 400
        /\ proc[p].pagesSpent.whole < 0
        /\ proc[q].op = "ingest" /\ proc[q].resp.status = 404

\* C8: for every instant, getExpectedResetDate is midnight of the 5th of this month
\* from the 5th on and of the previous month before it, getNextResetDate is the 5th
\* one calendar month later, and now lies between the two.
MonthIndex(ts) == getFullYear(ts) * 12 + getMonth(ts)

C8_PeriodBounds ==
    clockOut.expected # NoDate =>
        LET e == clockOut.expected
            n == clockOut.next
        IN
        /\ getDate(e) = 5 /\ e % TicksPerDay = 0
        /\ getDate(n) = 5 /\ n % TicksPerDay = 0
        /\ MonthIndex(e) = (IF getDate(now) >= 5 THEN MonthIndex(now) ELSE MonthIndex(now) - 1)
        /\ MonthIndex(n) = MonthIndex(e) + 1
        /\ e <= now /\ now < n

C8_Witness ==
    /\ clockOut.expected # NoDate
    /\ getMonth(now) = 0 /\ getDate(now) = 3
    /\ getMonth(clockOut.expected) = 11
    /\ getFullYear(clockOut.expected) = getFullYear(now) - 1
    /\ getMonth(clockOut.next) = 0

PeriodStartNow(t) ==
    IF tenant[t].lastResetAt = NoDate THEN getExpectedResetDate(now)
    ELSE setHoursZero(tenant[t].lastResetAt)

UsedPages(t) == SumPages({a \in aggs : a.customerId = t /\ a.date >= PeriodStartNow(t)})

UsedRows(t) == SumRows({a \in aggs : a.customerId = t /\ a.date >= PeriodStartNow(t)})

OverQuota(t) ==
    \/ UsedPages(t) >= tenant[t].pagesLimit + tenant[t].addonPagesLimit
    \/ UsedRows(t) >= tenant[t].rowsLimit + tenant[t].addonRowsLimit

UnderQuota(t) ==
    /\ UsedPages(t) < tenant[t].pagesLimit + tenant[t].addonPagesLimit
    /\ UsedRows(t) < tenant[t].rowsLimit + tenant[t].addonRowsLimit

Steps(p, label) == proc[p].pc = label /\ proc'[p] # proc[p]

\* C3: for a tenant that is not paused, checkAndPauseIfNeeded goes on to
\* pauseAllScenarios exactly when period usage has reached a total limit
\* (pages >= pagesLimit + addonPagesLimit or rows >= rowsLimit + addonRowsLimit).
C3_PauseIffExceeded ==
    [][\A p \in Procs :
        (Steps(p, "cap_usage") /\ ~tenant[proc[p].t].scenariosPaused) =>
            ((proc'[p].pc = "ps_key" /\ proc'[p].mode = "stop") <=> OverQuota(proc[p].t))]_vars

C3_Witness ==
    \E p \in Procs :
        /\ proc[p].op = "checkAndPause" /\ proc[p].pc = "ps_key" /\ proc[p].mode = "stop"
        /\ tenant[proc[p].t].pagesLimit = 5000 /\ tenant[proc[p].t].addonPagesLimit = 0
        /\ UsedPages(proc[p].t) = 5000
        /\ UsedRows(proc[p].t) < tenant[proc[p].t].rowsLimit

\* C4: pauseAllScenarios and resumeAllScenarios try every listed scenario once, in
\* order, whatever fails; succeeded + failed is the number listed; the paused flag
\* becomes true (pause) or false (resume) when at least one call succeeded and is
\* left as it was otherwise; without an API key nothing is listed or called.
C4_AllAttempted ==
    \A p \in Procs :
        LET l == proc[p] IN
        (l.pc = "done" /\ l.op \in {"pauseAll", "resumeAll"}) =>
            /\ l.cnt.ok + l.cnt.failed = l.listed
            /\ Len(l.tried) = l.listed
            /\ \A i \in 1 .. Len(l.tried) : l.tried[i] = i
            /\ l.cnt.ok >= 1 => tenant[l.t].scenariosPaused = (l.op = "pauseAll")
            /\ l.cnt.ok = 0 => tenant[l.t].scenariosPaused = l.pre.scenariosPaused
            /\ ~tenant[l.t].makeApiKey => (l.listed = 0 /\ l.tried = << >>)

C4_Witness ==
    \E p \in Procs :
        /\ proc[p].pc = "done" /\ proc[p].op = "pauseAll"
        /\ proc[p].cnt.ok >= 1 /\ proc[p].cnt.failed >= 1
        /\ ~proc[p].pre.scenariosPaused
        /\ tenant[proc[p].t].scenariosPaused

Resumed(l) == l.pc = "done" /\ l.op \in {"checkAndResume", "webhook"} /\ l.ret

\* C5 as stated: whenever checkAndResumeIfPossible finds a paused tenant under both
\* totals, the tenant is back in RUNNING (flag false) after the call.
C5_Original ==
    \A p \in Procs : Resumed(proc[p]) => ~tenant[proc[p].t].scenariosPaused

\* C5 amended: for a paused tenant checkAndResumeIfPossible calls
\* resumeAllScenarios exactly when usage is strictly under both totals, and the
\* flag is cleared exactly when one of the start calls succeeded; for a tenant
\* that is not paused it returns at once and changes nothing.
C5_ResumeIffWithin ==
    /\ [](\A p \in Procs :
            Resumed(proc[p]) => (tenant[proc[p].t].scenariosPaused <=> proc[p].cnt.ok = 0))
    /\ [][\A p \in Procs :
            /\ Steps(p, "car_usage") =>
                  ((proc'[p].pc = "ps_key" /\ proc'[p].mode = "start")
                      <=> UnderQuota(proc[p].t))
            /\ Steps(p, "car_read") =>
                  /\ proc'[p].pc = "car_usage" <=> tenant[proc[p].t].scenariosPaused
                  /\ UNCHANGED <<tenant, subscription, events, aggs, ext, extCalls>>]_vars

C5_Witness ==
    \E p \in Procs :
        /\ Resumed(proc[p])
        /\ ~tenant[proc[p].t].scenariosPaused
        /\ tenant[proc[p].t].pagesLimit = 5000
        /\ tenant[proc[p].t].addonPagesLimit = 2000
        /\ UsedPages(proc[p].t) = 6000

\* C6: once a monthly reset has been applied for the current period, a further
\* applyMonthlyResetIfNeeded in that period returns false at its first read and
\* changes neither the tenant (lastResetAt, add-ons, flag) nor the platform.
C6_ResetIdempotent ==
    [][\A p \in Procs :
        (/\ Steps(p, "amr_read")
         /\ applied[proc[p].t] # NoDate
         /\ applied[proc[p].t] = getExpectedResetDate(now)) =>
            /\ proc'[p].pc \notin {"amr_read", "amr_sub", "amr_update", "ps_key"}
            /\ ~proc'[p].ret
            /\ UNCHANGED <<tenant, subscription, events, aggs, ext, extCalls, applied>>]_vars

C6_Witness ==
    \E p \in Procs :
        /\ proc[p].pc = "done" /\ proc[p].op = "monthlyReset" /\ ~proc[p].ret
        /\ applied[proc[p].t] # NoDate
        /\ applied[proc[p].t] = getExpectedResetDate(now)

\* C7: when lastResetAt is unset or before the current period start, the reset is
\* one update that sets both add-on limits to 0 and lastResetAt to the period
\* start, clears the paused flag only for a paused tenant with an 'active'
\* subscription, and touches nothing else; resumeAllScenarios follows only then.
C7_ResetUpdate ==
    [][\A p \in Procs :
        LET t == proc[p].t IN
        /\ Steps(p, "amr_read") =>
              (proc'[p].pc = "amr_sub" <=>
                  (tenant[t].lastResetAt = NoDate
                      \/ tenant[t].lastResetAt < getExpectedResetDate(now)))
        /\ Steps(p, "amr_sub") =>
              (proc'[p].pc = "amr_update" /\ UNCHANGED <<tenant, ext, extCalls>>)
        /\ Steps(p, "amr_update") =>
              LET auto == subscription[t] = "active" /\ tenant[t].scenariosPaused IN
              /\ tenant' = [tenant EXCEPT ![t] =
                              [@ EXCEPT !.addonPagesLimit = 0, !.addonRowsLimit = 0,
                                        !.lastResetAt = getExpectedResetDate(now),
                                        !.scenariosPaused = IF auto THEN FALSE ELSE @]]
              /\ (proc'[p].pc = "ps_key" /\ proc'[p].mode = "start") <=> auto
              /\ UNCHANGED <<ext, extCalls, events, aggs, subscription>>]_vars

C7_Witness ==
    \E p \in Procs :
        /\ proc[p].op = "monthlyReset" /\ proc[p].pc = "ps_key" /\ proc[p].mode = "start"
        /\ tenant[proc[p].t].lastResetAt = getExpectedResetDate(now)
        /\ tenant[proc[p].t].addonPagesLimit = 0
        /\ ~tenant[proc[p].t].scenariosPaused

\* C9: the usage-status answer reports addonPagesUsed = max(0, usage.pages - the
\* base pagesLimit the tenant had stored) and the same for rows, also for stored
\* base limits of 1000 or less.
C9_AddonUsed ==
    \A p \in Procs :
        LET l == proc[p] IN
        (l.pc = "done" /\ l.op = "usageStatus") =>
            /\ l.out.addonPagesUsed = Max0(UsedPages(l.t) - l.atStart.pagesLimit)
            /\ l.out.addonRowsUsed = Max0(UsedRows(l.t) - l.atStart.rowsLimit)

\* C11: an ingest call answers 'duplicate' only in the step in which its own
\* event create met a stored event with the same (tenant, key); that step ends the
\* request (no aggregate upsert, no quota evaluation, no platform call) and leaves
\* every event, aggregate row, tenant row and scenario as it was.
C11_DuplicateNoEffect ==
    [][\A p \in Procs :
        (proc'[p].resp.body = "duplicate" /\ proc'[p] # proc[p]) =>
            /\ proc[p].pc = "ing_create"
            /\ EventKeyTaken(events, proc[p].t, proc[p].key)
            /\ proc'[p].pc = "done"
            /\ UNCHANGED <<tenant, subscription, events, aggs, ext, extCalls>>]_vars

C11_Witness ==
    \E p \in Procs :
        /\ proc[p].pc = "done" /\ proc[p].resp.body = "duplicate"
        /\ \E a \in aggs : a.customerId = proc[p].t /\ a.eventCount = 1
        /\ Cardinality(events) = 1

GeneratedEvents == {e \in events : e.idempotencyKey.gen}

RowOf(A, t, d) ==
    LET R == {a \in A : a.customerId = t /\ a.date = d}
    IN  [pagesSpent |-> SumPages(R), rowsUsed |-> SumRows(R), eventCount |-> SumCount(R)]

\* C17: a valid ingest call for an existing tenant that carries no Idempotency-Key
\* header runs under a generated key that no stored event has: its create stores
\* one more event (never 'duplicate'), its upsert adds its pagesSpent and rowsUsed
\* and 1 to the day's aggregate row, and it answers 201 'created'.
C17_NoHeaderAccepted ==
    [][\A p \in Procs :
        LET l == proc[p] IN
        /\ (Steps(p, "ing_create") /\ l.key.gen) =>
              /\ ~EventKeyTaken(events, l.t, l.key)
              /\ proc'[p].pc = "ing_upsert"
              /\ Cardinality(events') = Cardinality(events) + 1
        /\ (Steps(p, "ing_upsert") /\ l.key.gen) =>
              LET d == setHoursZero(l.ts)
                  before == RowOf(aggs, l.t, d)
                  after == RowOf(aggs', l.t, d)
              IN  /\ after.pagesSpent = before.pagesSpent + l.pagesSpent.whole
                  /\ after.rowsUsed = before.rowsUsed + l.rowsUsed.whole
                  /\ after.eventCount = before.eventCount + 1
                  /\ proc'[p].resp = [status |-> 201, body |-> "created"]]_vars

C17_Witness ==
    /\ Cardinality(GeneratedEvents) = 2
    /\ \A p \in Procs : proc[p].pc \notin {"ing_find", "ing_create", "ing_upsert"}
    /\ \E a \in aggs : a.eventCount = 2

WellFormed(l) ==
    /\ l.t # NoTenant
    /\ l.addonType \in {"pages", "rows"}
    /\ l.addonQuantity > 0

AddonLimit(row, addonType) ==
    IF addonType = "pages" THEN row.addonPagesLimit ELSE row.addonRowsLimit

\* C12: two purchase webhooks for the same tenant and addonType, with quantities
\* q1 and q2, that have both been acknowledged leave the add-on limit at its prior
\* value (0) + q1 + q2, however their steps interleave.
C12_NoLostPurchase ==
    \A p, q \in Procs :
        LET a == proc[p]
            b == proc[q]
        IN  (/\ p # q
             /\ a.pc = "done" /\ a.op = "webhook" /\ WellFormed(a) /\ a.t \in Tenants
             /\ b.pc = "done" /\ b.op = "webhook" /\ WellFormed(b)
             /\ a.t = b.t /\ a.addonType = b.addonType) =>
                AddonLimit(tenant[a.t], a.addonType) = a.addonQuantity + b.addonQuantity

\* C13: every purchase webhook that has been answered was answered
\* { received: true }, whatever its metadata and whatever became of the resume check.
C13_AlwaysReceived ==
    \A p \in Procs :
        (proc[p].pc = "done" /\ proc[p].op = "webhook") =>
            proc[p].resp = [status |-> 200, body |-> "received"]

\* C14: no step of a purchase webhook whose metadata is malformed (tenantId
\* missing, addonType missing or neither 'pages' nor 'rows', addonQuantity missing,
\* not a number or not > 0) changes a tenant row or enters checkAndResumeIfPossible.
C14_MalformedIgnored ==
    [][\A p \in Procs :
        (proc[p].op = "webhook" /\ proc[p].pc # "done" /\ ~WellFormed(proc[p])
            /\ proc'[p] # proc[p]) =>
                /\ UNCHANGED tenant
                /\ proc'[p].pc \notin {"car_read", "car_usage"}]_vars

Finishes(p, op) ==
    proc[p].op = op /\ proc[p].pc # "done" /\ proc'[p].op = op /\ proc'[p].pc = "done"

\* C15: when an administrative reset of tenant T that ran alone is answered, no
\* event and no aggregate row of T is stored, T.lastResetAt is today's midnight,
\* T is not paused, resumeAllScenarios has run (every listed scenario got its start
\* call), the usage of T's period is 0, and T's base and add-on limits are those
\* it had before the reset.
C15_AdminReset ==
    [][\A p \in Procs :
        Finishes(p, "adminReset") =>
            LET t == proc[p].t
                l == proc'[p]
                row == tenant'[t]
            IN  /\ {e \in events' : e.customerId = t} = {}
                /\ {a \in aggs' : a.customerId = t} = {}
                /\ row.lastResetAt = setHoursZero(now)
                /\ ~row.scenariosPaused
                /\ l.mode = "start"
                /\ Len(l.tried) = l.listed
                /\ l.cnt.ok + l.cnt.failed = l.listed
                /\ getCurrentPeriodUsage(aggs', t, periodStartOf(row, now))
                      = [pages |-> 0, rows |-> 0]
                /\ row.pagesLimit = l.atStart.pagesLimit
                /\ row.rowsLimit = l.atStart.rowsLimit
                /\ row.addonPagesLimit = l.atStart.addonPagesLimit
                /\ row.addonRowsLimit = l.atStart.addonRowsLimit]_vars

C15_Witness ==
    \E p \in Procs :
        /\ proc[p].pc = "done" /\ proc[p].op = "adminReset"
        /\ proc[p].atStart.scenariosPaused
        /\ proc[p].cnt.ok >= 1
        /\ ~tenant[proc[p].t].scenariosPaused
        /\ {e \in events : e.customerId = proc[p].t} = {}
        /\ now # setHoursZero(now)

Clears(t) == tenant[t].scenariosPaused /\ ~tenant'[t].scenariosPaused

\* C18: the paused flag of a tenant changes from true to false only in the flag
\* write of a resumeAllScenarios in which at least one start call succeeded.
C18_ClearedOnlyOnSuccess ==
    [][\A t \in Tenants :
        Clears(t) =>
            \E p \in Procs :
                /\ proc[p].t = t
                /\ Steps(p, "ps_flag")
                /\ proc[p].mode = "start"
                /\ proc[p].cnt.ok >= 1]_vars

\* C20: the paused flag of a tenant changes from true to false only in (a) the
\* update of a monthly reset, with the subscription active, (b) the flag write of
\* the resume started by checkAndResumeIfPossible, with usage under both totals,
\* (c) an administrative reset, or (d) the flag write of a manual resume-all.  So
\* ingest and checkAndPauseIfNeeded for a tenant without an active subscription, a
\* status query without a due reset, and a webhook that leaves usage at or over a
\* total never clear it.
C20_ClearingSteps ==
    [][\A t \in Tenants :
        Clears(t) =>
            \E p \in Procs :
                LET l == proc[p] IN
                /\ l.t = t
                /\ proc'[p] # l
                /\ \/ /\ l.pc = "amr_update"
                      /\ subscription[t] = "active"
                      /\ needsReset(tenant[t], getExpectedResetDate(now))
                   \/ /\ l.pc = "ps_flag"
                      /\ l.mode = "start"
                      /\ l.op \in {"checkAndResume", "webhook"}
                      /\ UnderQuota(t)
                   \/ /\ l.op = "adminReset"
                      /\ l.pc \in {"ar_update", "ps_flag"}
                   \/ /\ l.op = "resumeAll"
                      /\ l.pc = "ps_flag"
                      /\ l.mode = "start"]_vars

C20_Witness ==
    \E p \in Procs :
        /\ proc[p].pc = "done" /\ proc[p].op = "resumeAll"
        /\ proc[p].pre.scenariosPaused
        /\ proc[p].cnt.ok >= 1
        /\ ~tenant[proc[p].t].scenariosPaused

Created == [status |-> 201, body |-> "created"]

Evaluating(l) ==
    /\ l.op = "ingest"
    /\ l.pc \in {"amr_read", "amr_sub", "amr_update", "cap_read", "cap_usage",
                 "ps_key", "ps_fetch", "ps_call", "ps_flag"}

\* C16: the step that completes the aggregate upsert of an accepted event answers
\* 201 'created' and starts the evaluation without any call to the workflow
\* platform having been made for it; from then on no step of the evaluation,
\* whether it succeeds, fails or faults, and wherever it stops, changes the answer,
\* returns to the handler, or writes an event or an aggregate again.
C16_AnswerIndependent ==
    [][\A p \in Procs :
          LET l == proc[p]
              l2 == proc'[p]
          IN  /\ (l.pc = "ing_upsert" /\ Evaluating(l2)) =>
                    /\ l2.resp = Created
                    /\ l2.pc = "amr_read"
                    /\ extCalls' = extCalls
              /\ Evaluating(l) =>
                    /\ l.resp = Created
                    /\ l2.resp = Created
                    /\ l2.op = "ingest"
                    /\ Evaluating(l2) \/ l2.pc = "done"
                    /\ l2 # l => events' = events /\ aggs' = aggs /\ hist' = hist]_vars

\* An ingest answered 201 whose evaluation ended without a stop call, although
\* the tenant has a key, is not paused and is over its limit.
C16_Witness ==
    \E p \in Procs :
        /\ proc[p].op = "ingest" /\ proc[p].pc = "done" /\ proc[p].resp = Created
        /\ nreq = 1
        /\ tenant[proc[p].t].makeApiKey
        /\ ~tenant[proc[p].t].scenariosPaused
        /\ OverQuota(proc[p].t)
        /\ \A s \in Scen : extCalls["stop"][proc[p].t][s] = 0

\* C19: in every state, whatever ingest requests and administrative resets are
\* in flight, the aggregate row of each (tenant, day) holds the sums of
\* pagesSpent and rowsUsed of the stored events of that tenant and day and their
\* number; a missing row counts as zero.
C19_AggregateAlwaysSum ==
    \A t \in Tenants : \A d \in DaysOf(t) :
        RowOf(aggs, t, d) = [pagesSpent |-> SumPages(DayEvents(t, d)),
                             rowsUsed |-> SumRows(DayEvents(t, d)),
                             eventCount |-> Cardinality(DayEvents(t, d))]

OwnStoreCalls ==
    {"amr_read", "amr_sub", "amr_update", "cap_read", "cap_usage", "car_read",
     "car_usage"}

\* The call in progress at l has returned to its caller in the step to l2.
Returned(l, l2) == l2.pc = "done" \/ Len(l2.stack) < Len(l.stack)

\* A step of request p from one of the store calls pcs that returns to the caller
\* with the tenant row as it was.
ReturnsUnwritten(p, pcs) ==
    /\ proc[p].pc \in pcs
    /\ proc'[p] # proc[p]
    /\ tenant' = tenant
    /\ Returned(proc[p], proc'[p])

EngineCall(l) == l.op \in {"checkAndPause", "checkAndResume", "monthlyReset"}

\* C21 as stated: whichever store call inside checkAndPauseIfNeeded,
\* checkAndResumeIfPossible or applyMonthlyResetIfNeeded fails, the flag write of
\* pauseAllScenarios included, the call ends with result false, without an error
\* answer and without an external call.
C21_Original ==
    [][\A p \in Procs :
          LET l == proc[p]
              l2 == proc'[p]
          IN  /\ EngineCall(l) /\ ReturnsUnwritten(p, OwnStoreCalls) =>
                    l2.ret = FALSE /\ extCalls' = extCalls /\ l2.resp = NoResp
              /\ l.op = "checkAndPause" /\ l.mode = "stop"
                    /\ ReturnsUnwritten(p, {"ps_flag"}) =>
                    l2.ret = FALSE /\ extCalls' = extCalls /\ l2.resp = NoResp]_vars

\* C21 (amended): when a store call awaited in the body of
\* applyMonthlyResetIfNeeded, checkAndPauseIfNeeded or checkAndResumeIfPossible
\* itself fails, that function returns false to its caller at that step, with no
\* error answer and no external call; the caller goes on from its continuation.
C21_FaultReturnsFalse ==
    [][\A p \in Procs :
          LET l == proc[p]
              l2 == proc'[p]
          IN  EngineCall(l) /\ ReturnsUnwritten(p, OwnStoreCalls) =>
                 /\ l2.ret = FALSE
                 /\ extCalls' = extCalls
                 /\ l2.resp = NoResp
                 /\ l2.pc = IF Head(l.stack) = "end" THEN "done"
                            ELSE Head(l.stack)]_vars

\* A monthly reset that ended with false although the reset was due.
C21_Witness ==
    /\ proc[1].op = "monthlyReset" /\ proc[1].pc = "done" /\ proc[1].ret = FALSE
    /\ nreq = 1
    /\ needsReset(tenant["t1"], getExpectedResetDate(now))

\* The paused flag of t and the scenarios of t on the platform say the same,
\* in the state a step leads to.
AgreeAfter(t) ==
    /\ tenant'[t].scenariosPaused => \A s \in Scen : ~ext'[t][s]
    /\ ~tenant'[t].scenariosPaused => \A s \in Scen : ext'[t][s]

\* C22: an evaluation pass (checkAndPauseIfNeeded or checkAndResumeIfPossible)
\* that ends without a failed call to the workflow platform leaves the paused
\* flag and the scenarios in agreement: flag set with every scenario stopped, or
\* flag clear with every scenario running.  Passes are taken that end at the
\* usage test, at the flag test or at the flag write; for checkAndPauseIfNeeded,
\* those of a tenant no monthly reset has been applied to.
C22_SelfCorrects ==
    [][\A p \in Procs :
          LET l == proc[p]
              l2 == proc'[p]
          IN  /\ l.op \in {"checkAndPause", "checkAndResume"}
              /\ l.pc \in {"cap_usage", "car_read", "car_usage", "ps_flag"}
              /\ l2.pc = "done"
              /\ l2.cnt.failed = 0
              /\ l.op = "checkAndPause" => applied[l.t] = NoDate
              => AgreeAfter(l.t)]_vars

Calls(m, t) == {extCalls[m][t][s] : s \in Scen}

\* C23: when the two requests are checkAndPauseIfNeeded calls running at the
\* same time, no call of either has failed and no scenario has been started, no
\* scenario of the tenant has received more than one stop call; likewise for two
\* applyMonthlyResetIfNeeded calls and start calls.
C23_OncePerTransition ==
    /\ (/\ \A p \in Procs : proc[p].op = "checkAndPause" /\ proc[p].cnt.failed = 0
        /\ Calls("start", "t1") = {0})
          => \A n \in Calls("stop", "t1") : n <= 1
    /\ (/\ \A p \in Procs : proc[p].op = "monthlyReset" /\ proc[p].cnt.failed = 0
        /\ Calls("stop", "t1") = {0})
          => \A n \in Calls("start", "t1") : n <= 1

\* C28: no step lowers a tenant's lastResetAt, and lastResetAt is never later
\* than the clock, whatever the interleaving of monthly resets and
\* administrative resets.
C28_ResetDateMonotonic ==
    [][\A t \in Tenants :
          /\ tenant'[t].lastResetAt >= tenant[t].lastResetAt
          /\ tenant'[t].lastResetAt <= now']_vars

\* C24: checkAndPauseIfNeeded, checkAndResumeIfPossible and the usage-status
\* query sum the aggregate rows dated on or after lastResetAt at midnight when
\* lastResetAt is set, and on or after the calculated period start when it is
\* not: the pause and resume decisions and the usage reported are those of that
\* sum.
C24_PeriodFromLastReset ==
    [][\A p \in Procs :
          LET t == proc[p].t IN
          /\ Steps(p, "cap_usage") =>
                (proc'[p].pc = "ps_key" <=>
                    (OverQuota(t) /\ ~tenant[t].scenariosPaused))
          /\ Steps(p, "car_usage") => (proc'[p].pc = "ps_key" <=> UnderQuota(t))
          /\ Steps(p, "us_usage") =>
                proc'[p].usage = [pages |-> UsedPages(t), rows |-> UsedRows(t)]]_vars

\* After an administrative reset today, an accepted event of 6000 pages dated
\* yesterday is stored and the tenant, limit 5000, has not been paused for it.
C24_Witness ==
    /\ proc[1].op = "ingest" /\ proc[1].pc = "done" /\ proc[1].resp = Created
    /\ tenant["t1"].lastResetAt = setHoursZero(StartDate)
    /\ tenant["t1"].makeApiKey
    /\ \E e \in events :
          /\ e.customerId = "t1" /\ e.pagesSpent = 6000
          /\ setHoursZero(e.timestamp) < tenant["t1"].lastResetAt
    /\ UsedPages("t1") = 0
    /\ ~tenant["t1"].scenariosPaused
    /\ Calls("stop", "t1") = {0}

\* Every (tenant, day) row of A has a row in B with no smaller pagesSpent,
\* rowsUsed and eventCount.
NotLowered(A, B) ==
    \A a \in A : \E b \in B :
        /\ b.customerId = a.customerId /\ b.date = a.date
        /\ b.pagesSpent >= a.pagesSpent
        /\ b.rowsUsed >= a.rowsUsed
        /\ b.eventCount >= a.eventCount

\* C25: a step other than the aggregate deletion of an administrative reset
\* removes no aggregate row and lowers none of its pagesSpent, rowsUsed and
\* eventCount; the upsert of an accepted event raises the eventCount of the
\* event's (tenant, day) row by exactly 1 and leaves every other row as it was.
C25_AggregatesMonotonic ==
    [][/\ (\A p \in Procs : ~Steps(p, "ar_aggs")) => NotLowered(aggs, aggs')
       /\ \A p \in Procs :
             LET l == proc[p]
                 d == setHoursZero(l.ts)
             IN  (Steps(p, "ing_upsert") /\ proc'[p].resp = Created) =>
                    /\ RowOf(aggs', l.t, d).eventCount = RowOf(aggs, l.t, d).eventCount + 1
                    /\ {a \in aggs' : ~(a.customerId = l.t /\ a.date = d)}
                          = {a \in aggs : ~(a.customerId = l.t /\ a.date = d)}]_vars

\* Two accepted events of one day: their row counts 2.
C25_Witness ==
    /\ proc[1].op = "ingest" /\ proc[1].pc = "done" /\ proc[1].resp = Created
    /\ \E a \in aggs : /\ a.customerId = "t1" /\ a.date = setHoursZero(now)
                        /\ a.eventCount = 2
    /\ Cardinality({a \in aggs : a.customerId = "t1"}) = 3

\* C26: a checkAndPauseIfNeeded call that has returned true made at least one
\* successful stop call and left the paused flag set; a checkAndResumeIfPossible
\* call that has returned true made at least one successful start call and left
\* the flag clear.
C26_TrueOnlyIfDone ==
    \A p \in Procs :
        LET l == proc[p] IN
        (l.pc = "done" /\ l.ret) =>
            /\ l.op = "checkAndPause" =>
                  l.cnt.ok >= 1 /\ tenant[l.t].scenariosPaused
            /\ l.op = "checkAndResume" =>
                  l.cnt.ok >= 1 /\ ~tenant[l.t].scenariosPaused

\* C27: as long as no billing-period boundary has passed since the first
\* instant, so that every add-on purchase made so far belongs to the current
\* period, no step lowers a tenant's add-on limits.
C27_AddonKeptInPeriod ==
    [][\A t \in Tenants :
          getExpectedResetDate(now') = getExpectedResetDate(StartDate) =>
              /\ tenant'[t].addonPagesLimit >= tenant[t].addonPagesLimit
              /\ tenant'[t].addonRowsLimit >= tenant[t].addonRowsLimit]_vars

\* What the store and the platform hold for tenant t.
TenantData(T, E, A, X, C, t) ==
    [row |-> T[t],
     events |-> {e \in E : e.customerId = t},
     aggs |-> {a \in A : a.customerId = t},
     scenarios |-> X[t],
     calls |-> [m \in {"stop", "start"} |-> C[m][t]]]

\* The tenant request p works for in this step.
ActingFor(p) == IF Free(p) THEN proc'[p].t ELSE proc[p].t

\* C29: a step of a request made for one tenant leaves the row, the events, the
\* aggregates and the scenarios of every other tenant as they were; the pause
\* and resume decisions for a tenant are those of the sum over its own aggregate
\* rows; and a key stored for another tenant does not make an ingest a duplicate.
C29_TenantIsolation ==
    [][\A p \in Procs :
          LET l == proc[p] IN
          /\ proc'[p] # proc[p] =>
                \A b \in Tenants \ {ActingFor(p)} :
                    TenantData(tenant', events', aggs', ext', extCalls', b)
                        = TenantData(tenant, events, aggs, ext, extCalls, b)
          /\ Steps(p, "cap_usage") =>
                (proc'[p].pc = "ps_key" <=>
                    (OverQuota(l.t) /\ ~tenant[l.t].scenariosPaused))
          /\ Steps(p, "car_usage") => (proc'[p].pc = "ps_key" <=> UnderQuota(l.t))
          /\ (/\ Steps(p, "ing_create")
              /\ ~\E e \in events : e.customerId = l.t /\ e.idempotencyKey = l.key)
                => proc'[p].pc = "ing_upsert"]_vars

\* Tenant t2, under its own limit, has been evaluated and left running while
\* tenant t1 sits over the limit on the same day; and t2 has had an event
\* accepted under the key t1 still holds.
C29_Witness ==
    /\ proc[1].op = "ingest" /\ proc[1].t = "t2" /\ proc[1].pc = "done"
    /\ proc[1].resp = Created
    /\ \E e \in events : e.customerId = "t1" /\ e.idempotencyKey = SharedKey
    /\ \E e \in events : /\ e.customerId = "t2" /\ e.idempotencyKey = SharedKey
                          /\ e.pagesSpent = 20
    /\ OverQuota("t1") /\ ~OverQuota("t2")
    /\ ~tenant["t2"].scenariosPaused
    /\ Calls("stop", "t2") = {0}

KeyStored(t, key) == \E e \in events : e.customerId = t /\ e.idempotencyKey = key

\* C30: the event deletion of an administrative reset leaves no event, hence no
\* key, of the tenant.  An ingest under a key the tenant holds is answered
\* 'duplicate' and stores nothing; under a key it does not hold, as is every key
\* after the reset, it stores a new event, adds it to the day's aggregate row
\* and is answered 'created'.
C30_ResetClearsKeys ==
    [][\A p \in Procs :
          LET l == proc[p]
              l2 == proc'[p]
              d == setHoursZero(l.ts)
          IN  /\ Steps(p, "ar_events") => \A key \in HeaderKeys : ~KeyStored(l.t, key)'
              /\ (Steps(p, "ing_create") /\ KeyStored(l.t, l.key)) =>
                    l2.pc = "done" /\ l2.resp.body = "duplicate" /\ events' = events
              /\ (Steps(p, "ing_create") /\ ~KeyStored(l.t, l.key)) =>
                    /\ l2.pc = "ing_upsert"
                    /\ KeyStored(l.t, l.key)'
                    /\ Cardinality(events') = Cardinality(events) + 1
              /\ Steps(p, "ing_upsert") =>
                    /\ l2.resp = Created
                    /\ RowOf(aggs', l.t, d).eventCount = RowOf(aggs, l.t, d).eventCount + 1
                    /\ RowOf(aggs', l.t, d).pagesSpent
                          = RowOf(aggs, l.t, d).pagesSpent + l.pagesSpent.whole]_vars

\* After the reset of t1 an ingest under the key t1 held before is answered
\* 'created': its event is the only one of t1 and its day's row counts 1.
C30_Witness ==
    /\ proc[1].op = "ingest" /\ proc[1].t = "t1" /\ proc[1].pc = "done"
    /\ proc[1].resp = Created
    /\ hist[KeyOf("t1", SharedKey.id)].created = 1
    /\ \A e \in events : e.customerId = "t1" =>
          e.idempotencyKey = SharedKey /\ e.pagesSpent = 20
    /\ RowOf(aggs, "t1", setHoursZero(now)).eventCount = 1
    /\ RowOf(aggs, "t1", SeedDay).eventCount = 0

=============================================================================
